---------------------------- MODULE Spec2Model ----------------------------
(***************************************************************************)
(* Model of SCUpgradeHelper: the TTL-gated data providers                  *)
(* (src/data/provider.py), the EntityManager's category updates            *)
(* (src/db/manager.py, src/db/entity.py) and the PathAnalyzer              *)
(* (src/data/analyze.py).                                                  *)
(*                                                                         *)
(* Time is counted in hours.  The EntityManager owns one SQLAlchemy        *)
(* session for its whole life and never rolls it back, so the tables below *)
(* are the database as that session sees it (autoflush makes pending rows  *)
(* visible to every later query of the same session).                      *)
(***************************************************************************)
EXTENDS Integers, Sequences, FiniteSets, TLC

VARIABLES
    now,            \* datetime.now(), in hours
    manufacturers,  \* table MANUFACTURERS: rows [id, name, code]
    ships,          \* table SHIPS: rows [id, name, manufacturer_id, loaddate]
    standalones,    \* table STANDALONES: rows [id, ship_id, price_usd, store_id, needs_review, loaddate]
    upgrades,       \* table UPGRADES: rows [id, ship_id_from, ship_id_to, price_usd, store_id, needs_review, loaddate]
    updateLogs,     \* table UPDATELOGS: rows [id, update_type, loaddate]
    last,           \* the most recent update_* call: its arguments and its outcome
    graph,          \* PathAnalyzer._graph: adjacency map of dijkstra.Graph
    a_standalones,  \* PathAnalyzer._standalones
    a_upgrades,     \* PathAnalyzer._upgrades
    query,          \* the most recent path query: its arguments and its outcome
    data_expiry,    \* DataProvider.data_expiry.last_updated, per provider
    data,           \* DataProvider._data, per provider
    got,            \* the most recent get_data call: its arguments and its outcome
    remaining,      \* the most recent expires_in call: the Expiry, the time and the value
    lookup,         \* the most recent find_ship_id_by_name call: its arguments and its outcome
    scored,         \* the most recent fuzzy_search_min_score call: its argument and its value
    batch,          \* the most recent _update_reddit_entries call: the entries scraped, the
                    \* scorers of their names, and the lists of offers it built
    rebuild,        \* the position of the PathAnalyzer.update() in progress, with the
                    \* snapshot it started from
    refresh         \* the most recent call of the broker that refreshes categories:
                    \* its arguments, the answers of the endpoints, the state it
                    \* started from and what it did

vars == <<now, manufacturers, ships, standalones, upgrades, updateLogs, last,
          graph, a_standalones, a_upgrades, query, data_expiry, data, got, remaining,
          lookup, scored, batch, rebuild, refresh>>

catalogVars == <<manufacturers, ships, standalones, upgrades, updateLogs, last>>
analyzerVars == <<graph, a_standalones, a_upgrades, query>>
providerVars == <<data_expiry, data, got, remaining>>
resolverVars == <<lookup, scored>>
brokerVars == <<batch, refresh>>
rebuildVars == <<rebuild>>

None == "None"

(***************************************************************************)
(* Bounds of the model.                                                    *)
(***************************************************************************)
MaxTicks == 2           \* clock advances explored
MaxLogs == 2            \* update_* calls that return normally
MaxCands == 2           \* length of a candidate list
MaxGets == 2            \* get_data calls
MaxOffers == 3          \* rows of a catalog of the path queries
MaxUpgradeCands == 1    \* length of a list of upgrades in the offer catalog
MaxPurchaseOffers == 2  \* rows of a table of the purchase-path catalogs
MaxLength == 120        \* longest length a threshold is computed for
MaxShips == 2           \* rows of the table of ships of the name look-ups
MaxEntries == 2         \* entries of a batch of community posts
MaxLogCalls == 2        \* update_* calls beyond the limit of the update logs
MaxRefreshes == 2       \* calls of the broker that refresh categories

(***************************************************************************)
(* src/const.py: staleness horizons / lifetimes, in hours.                 *)
(***************************************************************************)
SHIP_DATA_EXPIRY == 168
RSI_STANDALONE_DATA_EXPIRY == 24
RSI_UPGRADE_DATA_EXPIRY == 24
REDDIT_DATA_EXPIRY == 1

UPDATE_LOGS_ENTRY_LIMIT == 100

RSI_SCRAPER_STORE_OWNER == "RSI"

\* The times that at most n advances of the clock by one of `steps` reach.
RECURSIVE TimesWithin(_, _)
TimesWithin(steps, n) ==
    IF n = 0 THEN {0}
    ELSE TimesWithin(steps, n - 1) \cup
         {a + b : a \in TimesWithin(steps, n - 1), b \in steps}

Max(S) == CHOOSE x \in S : \A y \in S : y <= x

Min(S) == CHOOSE x \in S : \A y \in S : x <= y

\* All orders in which the elements of the finite set S can be enumerated.
RECURSIVE Orders(_)
Orders(S) ==
    IF S = {} THEN {<<>>}
    ELSE UNION {{<<x>> \o o : o \in Orders(S \ {x})} : x \in S}

(***************************************************************************)
(* src/db/entity.py                                                        *)
(***************************************************************************)
UpdateType == {"MANUFACTURERS", "SHIPS", "RSI_STANDALONES", "RSI_UPGRADES",
               "REDDIT_STANDALONES", "REDDIT_UPGRADES"}

\* Table STORES.  url_reddit is the value of url ILIKE '%reddit.com%' OR
\* url ILIKE '%redd.it%' for the row.
Stores ==
    { [id |-> 1, username |-> RSI_SCRAPER_STORE_OWNER, url_reddit |-> FALSE],
      [id |-> 2, username |-> "trader", url_reddit |-> TRUE] }

StoreById(store_id) == CHOOSE s \in Stores : s.id = store_id

\* Python's getattr: which attributes an object has.
HasAttr(e, attr) == attr \in DOMAIN e

\* The mapped class of a candidate, or "int" for the foreign object 1.
TypeOf(e) == e.type

\* x.__eq__(other) for the four entity classes: "T", "F", or "AttributeError"
\* when other lacks an attribute that the comparison reads (the and-chain
\* stops at the first false comparison).
ManufacturerEq(x, other) ==
    IF ~HasAttr(other, "id") THEN "AttributeError"
    ELSE IF x.id # other.id THEN "F"
    ELSE IF ~HasAttr(other, "name") THEN "AttributeError"
    ELSE IF x.name # other.name THEN "F"
    ELSE IF ~HasAttr(other, "code") THEN "AttributeError"
    ELSE IF x.code = other.code THEN "T" ELSE "F"

ShipEq(x, other) ==
    IF ~HasAttr(other, "name") THEN "AttributeError"
    ELSE IF x.name # other.name THEN "F"
    ELSE IF ~HasAttr(other, "manufacturer_id") THEN "AttributeError"
    ELSE IF x.manufacturer_id = other.manufacturer_id THEN "T" ELSE "F"

PurchasableEq(x, other) ==
    IF ~HasAttr(other, "price_usd") THEN "AttributeError"
    ELSE IF x.price_usd # other.price_usd THEN "F"
    ELSE IF ~HasAttr(other, "store_id") THEN "AttributeError"
    ELSE IF x.store_id = other.store_id THEN "T" ELSE "F"

StandaloneEq(x, other) ==
    LET p == PurchasableEq(x, other) IN
    IF p # "T" THEN p
    ELSE IF ~HasAttr(other, "ship_id") THEN "AttributeError"
    ELSE IF x.ship_id = other.ship_id THEN "T" ELSE "F"

UpgradeEq(x, other) ==
    LET p == PurchasableEq(x, other) IN
    IF p # "T" THEN p
    ELSE IF ~HasAttr(other, "ship_id_from") THEN "AttributeError"
    ELSE IF x.ship_id_from # other.ship_id_from THEN "F"
    ELSE IF ~HasAttr(other, "ship_id_to") THEN "AttributeError"
    ELSE IF x.ship_id_to = other.ship_id_to THEN "T" ELSE "F"

\* x == other, x a candidate.
Eq(x, other) ==
    CASE TypeOf(x) = "Manufacturer" -> ManufacturerEq(x, other)
      [] TypeOf(x) = "Ship" -> ShipEq(x, other)
      [] TypeOf(x) = "Standalone" -> StandaloneEq(x, other)
      [] TypeOf(x) = "Upgrade" -> UpgradeEq(x, other)
      [] OTHER -> IF x = other THEN "T" ELSE "F"

\* The natural key that __hash__ and _entity_exists use.
StandaloneKey(e) == <<e.ship_id, e.price_usd, e.store_id>>
UpgradeKey(e) == <<e.ship_id_from, e.ship_id_to, e.price_usd, e.store_id>>

\* SQLite gives a row inserted without an id the largest id in use plus one.
NextId(rows) == IF rows = {} THEN 1 ELSE Max({r.id : r \in rows}) + 1


(***************************************************************************)
(* src/db/manager.py: EntityManager.  db is the record of the four entity  *)
(* tables, t the time of the call.                                         *)
(***************************************************************************)
IsRsiItem(row) == StoreById(row.store_id).username = RSI_SCRAPER_STORE_OWNER

IsRedditItem(row) == StoreById(row.store_id).url_reddit

\* _query_reddit_items without the filter on needs_review.
QueryRedditItemsUnfiltered(rows, include_unconfirmed) ==
    {r \in rows : IsRedditItem(r)}

\* _query_reddit_items(entity_type, include_unconfirmed) over one table.
QueryRedditItems(rows, include_unconfirmed) ==
    {r \in rows : IsRedditItem(r) /\ (include_unconfirmed \/ ~r.needs_review)}

\* _get_entities(update_type, include_unconfirmed=...)
GetEntities(update_type, db, include_unconfirmed) ==
    CASE update_type = "MANUFACTURERS" -> db.manufacturers
      [] update_type = "SHIPS" -> db.ships
      [] update_type = "RSI_STANDALONES" -> {r \in db.standalones : IsRsiItem(r)}
      [] update_type = "RSI_UPGRADES" -> {r \in db.upgrades : IsRsiItem(r)}
      [] update_type = "REDDIT_STANDALONES" ->
            QueryRedditItems(db.standalones, include_unconfirmed)
      [] update_type = "REDDIT_UPGRADES" ->
            QueryRedditItems(db.upgrades, include_unconfirmed)

\* As StaleEntities, with the ships' horizon for every category.
StaleEntitiesShipHorizon(update_type, db, t) ==
    CASE update_type = "SHIPS" ->
            {r \in db.ships : t - r.loaddate > SHIP_DATA_EXPIRY}
      [] update_type = "RSI_STANDALONES" ->
            {r \in db.standalones : t - r.loaddate > SHIP_DATA_EXPIRY}
      [] update_type = "RSI_UPGRADES" ->
            {r \in GetEntities("RSI_UPGRADES", db, TRUE) :
                t - r.loaddate > SHIP_DATA_EXPIRY}
      [] update_type = "REDDIT_STANDALONES" ->
            {r \in QueryRedditItems(db.standalones, TRUE) :
                t - r.loaddate > SHIP_DATA_EXPIRY}
      [] update_type = "REDDIT_UPGRADES" ->
            {r \in QueryRedditItems(db.upgrades, TRUE) :
                t - r.loaddate > SHIP_DATA_EXPIRY}
      [] OTHER -> {}

\* The `deletion` list of _remove_stale_entities.
StaleEntities(update_type, db, t) ==
    CASE update_type = "SHIPS" ->
            {r \in db.ships : t - r.loaddate > SHIP_DATA_EXPIRY}
      [] update_type = "RSI_STANDALONES" ->
            {r \in db.standalones : t - r.loaddate > RSI_STANDALONE_DATA_EXPIRY}
      [] update_type = "RSI_UPGRADES" ->
            {r \in GetEntities("RSI_UPGRADES", db, TRUE) :
                t - r.loaddate > RSI_UPGRADE_DATA_EXPIRY}
      [] update_type = "REDDIT_STANDALONES" ->
            {r \in QueryRedditItems(db.standalones, TRUE) :
                t - r.loaddate > REDDIT_DATA_EXPIRY}
      [] update_type = "REDDIT_UPGRADES" ->
            {r \in QueryRedditItems(db.upgrades, TRUE) :
                t - r.loaddate > REDDIT_DATA_EXPIRY}
      [] OTHER -> {}

\* _remove_stale_entities: session.delete of every stale row, then commit.
RemoveStaleEntities(update_type, db, t) ==
    LET deletion == StaleEntities(update_type, db, t) IN
    CASE update_type = "SHIPS" -> [db EXCEPT !.ships = @ \ deletion]
      [] update_type \in {"RSI_STANDALONES", "REDDIT_STANDALONES"} ->
            [db EXCEPT !.standalones = @ \ deletion]
      [] update_type \in {"RSI_UPGRADES", "REDDIT_UPGRADES"} ->
            [db EXCEPT !.upgrades = @ \ deletion]
      [] OTHER -> db

\* _entity_exists: "T", "F", or "ValueError" for an object of no entity class.
EntityExists(entity, db) ==
    CASE TypeOf(entity) = "Manufacturer" ->
            IF \E r \in db.manufacturers : r.name = entity.name THEN "T" ELSE "F"
      [] TypeOf(entity) = "Ship" ->
            IF \E r \in db.ships : r.name = entity.name THEN "T" ELSE "F"
      [] TypeOf(entity) = "Standalone" ->
            IF \E r \in db.standalones :
                  /\ r.price_usd = entity.price_usd
                  /\ r.store_id = entity.store_id
                  /\ r.ship_id = entity.ship_id
            THEN "T" ELSE "F"
      [] TypeOf(entity) = "Upgrade" ->
            IF \E r \in db.upgrades :
                  /\ r.price_usd = entity.price_usd
                  /\ r.store_id = entity.store_id
                  /\ r.ship_id_from = entity.ship_id_from
                  /\ r.ship_id_to = entity.ship_id_to
            THEN "T" ELSE "F"
      [] OTHER -> "ValueError"

\* As EntitiesSet, with candidates compared by identity (no __hash__/__eq__).
EntitiesSetByIdentity(entities) == {entities[i] : i \in 1..Len(entities)}

\* set(entities): of the candidates that are equal (same class, same hash,
\* __eq__ true) the first one of the list stays.
EntitiesSet(entities) ==
    {entities[i] : i \in {j \in 1..Len(entities) :
        \A k \in 1..(j - 1) :
            ~(TypeOf(entities[k]) = TypeOf(entities[j])
              /\ Eq(entities[k], entities[j]) = "T")}}

\* `entity in existing_entities`: the rows are compared in the order of the
\* query (by id) up to the first one that is equal; a comparison that raises
\* ends the search.
InExisting(entity, existing) ==
    LET hits == {r \in existing : Eq(entity, r) # "F"} IN
    IF hits = {} THEN "F"
    ELSE Eq(entity, CHOOSE r \in hits : \A o \in hits : r.id <= o.id)

\* Insert-or-update by primary key, as session.merge does for a candidate
\* that carries an id.
Upsert(rows, row) == {r \in rows : r.id # row.id} \cup {row}

\* session.merge(entity) followed by the flush of the commit; the
\* before_insert / before_update listeners set loaddate.
Merge(entity, db, t) ==
    CASE TypeOf(entity) = "Manufacturer" ->
            [db EXCEPT !.manufacturers = Upsert(@,
                [id |-> entity.id, name |-> entity.name, code |-> entity.code])]
      [] TypeOf(entity) = "Ship" ->
            \* the merge cascades to Ship.manufacturer
            [db EXCEPT
                !.ships = Upsert(@,
                    [id |-> entity.id, name |-> entity.name,
                     manufacturer_id |-> entity.manufacturer_id, loaddate |-> t]),
                !.manufacturers = Upsert(@,
                    [id |-> entity.manufacturer.id, name |-> entity.manufacturer.name,
                     code |-> entity.manufacturer.code])]
      [] TypeOf(entity) = "Standalone" ->
            [db EXCEPT !.standalones = @ \cup
                {[id |-> NextId(@), ship_id |-> entity.ship_id,
                  price_usd |-> entity.price_usd, store_id |-> entity.store_id,
                  needs_review |-> entity.needs_review, loaddate |-> t]}]
      [] TypeOf(entity) = "Upgrade" ->
            [db EXCEPT !.upgrades = @ \cup
                {[id |-> NextId(@), ship_id_from |-> entity.ship_id_from,
                  ship_id_to |-> entity.ship_id_to,
                  price_usd |-> entity.price_usd, store_id |-> entity.store_id,
                  needs_review |-> entity.needs_review, loaddate |-> t]}]

\* The add-or-merge loop of _update_entities over cleaned_entities.
RECURSIVE MergeLoop(_, _, _, _, _)
MergeLoop(cleaned, existing, db, t, total_count) ==
    IF cleaned = <<>> THEN [db |-> db, result |-> "ok", ret |-> total_count]
    ELSE LET entity == Head(cleaned)
             found == InExisting(entity, existing)
         IN  IF found = "AttributeError"
             THEN [db |-> db, result |-> "AttributeError", ret |-> None]
             ELSE IF found = "F"
             THEN MergeLoop(Tail(cleaned), existing, Merge(entity, db, t), t,
                            total_count + 1)
             ELSE MergeLoop(Tail(cleaned), existing, db, t, total_count)

\* As UpdateEntities, without the early return for the empty list.
UpdateEntitiesNoEarlyReturn(entities, update_type, db, t, order) ==
    LET existing_entities == GetEntities(update_type, db, TRUE)
        deletion == StaleEntities(update_type, db, t)
        db1 == RemoveStaleEntities(update_type, db, t)
    IN  IF \E i \in 1..Len(order) : EntityExists(order[i], db1) = "ValueError"
        THEN [db |-> db1, result |-> "ValueError", ret |-> None,
              deletion |-> deletion, cleaned_count |-> None]
        ELSE LET cleaned_entities ==
                     SelectSeq(order, LAMBDA e : EntityExists(e, db1) = "F")
                 out == MergeLoop(cleaned_entities, existing_entities, db1, t, 0)
             IN  [db |-> out.db, result |-> out.result, ret |-> out.ret,
                  deletion |-> deletion,
                  cleaned_count |-> Len(order) - Len(cleaned_entities)]

\* _update_entities(entities, update_type).  order is the order in which
\* Python iterates over entities_set.  deletion is the list of that name in
\* _remove_stale_entities, cleaned_count the variable of that name.
UpdateEntities(entities, update_type, db, t, order) ==
    IF Len(entities) = 0
    THEN [db |-> db, result |-> "ok", ret |-> 0, deletion |-> {},
          cleaned_count |-> 0]
    ELSE LET existing_entities == GetEntities(update_type, db, TRUE)
             deletion == StaleEntities(update_type, db, t)
             db1 == RemoveStaleEntities(update_type, db, t)
         IN  IF \E i \in 1..Len(order) : EntityExists(order[i], db1) = "ValueError"
             THEN [db |-> db1, result |-> "ValueError", ret |-> None,
                   deletion |-> deletion, cleaned_count |-> None]
             ELSE LET cleaned_entities ==
                          SelectSeq(order, LAMBDA e : EntityExists(e, db1) = "F")
                      out == MergeLoop(cleaned_entities, existing_entities, db1, t, 0)
                  IN  [db |-> out.db, result |-> out.result, ret |-> out.ret,
                       deletion |-> deletion,
                       cleaned_count |-> Len(order) - Len(cleaned_entities)]

\* _log_update: one UpdateLog row for the category.
LogUpdate(logs, update_type, t) ==
    logs \cup {[id |-> NextId(logs), update_type |-> update_type, loaddate |-> t]}

\* update_manufacturers, update_ships, update_rsi_standalones,
\* update_rsi_upgrades, update_reddit_standalones, update_reddit_upgrades:
\* _update_entities and, when that returns, _log_update.  The result is the
\* database and the log after the call, with the value returned or the
\* exception raised.
CategoryUpdate(update_type, entities, db, logs, t, order) ==
    LET out == UpdateEntities(entities, update_type, db, t, order) IN
    [db |-> out.db,
     logs |-> IF out.result = "ok" THEN LogUpdate(logs, update_type, t) ELSE logs,
     result |-> out.result, ret |-> out.ret, deletion |-> out.deletion,
     cleaned_count |-> out.cleaned_count]

\* The states of the database file after each commit of a call of update_*
\* whose outcome is out, in order: the commit of _remove_stale_entities,
\* the commit of _update_entities, the commit of _log_update.  A call with
\* no candidates commits once, in _log_update; a call that raises commits
\* the eviction only.  (For the manufacturers _remove_stale_entities
\* returns before its commit: the first state is the one before the call.)
CommittedStates(update_type, entities, db, logs, t, out) ==
    IF Len(entities) = 0
    THEN <<[db |-> out.db, logs |-> out.logs]>>
    ELSE <<[db |-> RemoveStaleEntities(update_type, db, t), logs |-> logs]>>
         \o (IF out.result = "ok"
             THEN <<[db |-> out.db, logs |-> logs],
                    [db |-> out.db, logs |-> out.logs]>>
             ELSE <<>>)

(***************************************************************************)
(* src/data/analyze.py: PathAnalyzer.update.  dijkstra.Graph keeps one     *)
(* weight per ordered pair of nodes (a dict of dicts): add_edge on a pair  *)
(* that already has an edge replaces its weight.                           *)
(***************************************************************************)
SHIP_ID_NONE == 0

EmptyGraph == [p \in {} |-> 0]

\* add_edge on a graph that adds the weight to the one the pair already
\* has instead of replacing it.
AddEdgeAccumulating(g, u, v, w) ==
    [p \in DOMAIN g \cup {<<u, v>>} |->
        IF p = <<u, v>> THEN (IF p \in DOMAIN g THEN g[p] + w ELSE w) ELSE g[p]]

AddEdge(g, u, v, w) ==
    [p \in DOMAIN g \cup {<<u, v>>} |-> IF p = <<u, v>> THEN w ELSE g[p]]

\* The rows of a query as a list: SQLite returns them by ascending id.
RECURSIVE ById(_)
ById(rows) ==
    IF rows = {} THEN <<>>
    ELSE LET r == CHOOSE x \in rows : \A y \in rows : x.id <= y.id
         IN  <<r>> \o ById(rows \ {r})

\* get_all_standalones / get_all_upgrades: the official rows, then the
\* community rows (optionally only the confirmed ones).
GetAllStandalones(db, include_unconfirmed) ==
    ById(GetEntities("RSI_STANDALONES", db, TRUE)) \o
    ById(GetEntities("REDDIT_STANDALONES", db, include_unconfirmed))

GetAllUpgrades(db, include_unconfirmed) ==
    ById(GetEntities("RSI_UPGRADES", db, TRUE)) \o
    ById(GetEntities("REDDIT_UPGRADES", db, include_unconfirmed))

RECURSIVE AddStandaloneEdges(_, _)
AddStandaloneEdges(g, list) ==
    IF list = <<>> THEN g
    ELSE AddStandaloneEdges(
            AddEdge(g, SHIP_ID_NONE, Head(list).ship_id, Head(list).price_usd),
            Tail(list))

RECURSIVE AddUpgradeEdges(_, _)
AddUpgradeEdges(g, list) ==
    IF list = <<>> THEN g
    ELSE AddUpgradeEdges(
            AddEdge(g, Head(list).ship_id_from, Head(list).ship_id_to,
                    Head(list).price_usd),
            Tail(list))

\* The graph that update() builds from the two offer lists.
BuildGraph(standalone_list, upgrade_list) ==
    AddUpgradeEdges(AddStandaloneEdges(EmptyGraph, standalone_list), upgrade_list)

\* Graph.get_edge_weight of the dijkstra package.
GetEdgeWeight(g, u, v) == g[<<u, v>>]

\* The nodes of the graph, with the node s the search starts from.
Nodes(g, s) == {s} \cup {p[1] : p \in DOMAIN g} \cup {p[2] : p \in DOMAIN g}

\* The walks without repeated node from s to t along the edges of g.
SimplePaths(g, s, t) ==
    LET N == Nodes(g, s) IN
    { path \in UNION {[1..n -> N] : n \in 1..Cardinality(N)} :
        /\ path[1] = s
        /\ path[Len(path)] = t
        /\ \A i \in 1..Len(path) : \A j \in 1..Len(path) :
              path[i] = path[j] => i = j
        /\ \A i \in 1..(Len(path) - 1) : <<path[i], path[i + 1]>> \in DOMAIN g }

RECURSIVE PathWeight(_, _)
PathWeight(g, path) ==
    IF Len(path) < 2 THEN 0
    ELSE GetEdgeWeight(g, path[1], path[2]) + PathWeight(g, Tail(path))

\* DijkstraSPF(g, s).get_path(t): a shortest path from s to t, as the list
\* of its nodes; which one of several shortest paths depends on the order
\* in which the package visits the nodes.  The empty set stands for the
\* KeyError raised when t cannot be reached.
GetPath(g, s, t) ==
    LET paths == SimplePaths(g, s, t) IN
    {path \in paths : \A other \in paths : PathWeight(g, path) <= PathWeight(g, other)}

\* _resolve_upgrade that filters on the from-ship and the price only: an
\* offer to another ship can stand for the edge.
ResolveUpgradeAnyTarget(upgrade_list, ship_id_from, ship_id_to, price_usd) ==
    LET candidates == SelectSeq(upgrade_list, LAMBDA s :
                          /\ s.ship_id_from = ship_id_from
                          /\ s.price_usd = price_usd)
    IN  IF Len(candidates) = 0 THEN << >> ELSE <<candidates[1]>>

\* _resolve_upgrade: the first offer of the list with these ships and this
\* price (the sort by price is stable); none when ValueError is raised.
ResolveUpgrade(upgrade_list, ship_id_from, ship_id_to, price_usd) ==
    LET candidates == SelectSeq(upgrade_list, LAMBDA s :
                          /\ s.ship_id_from = ship_id_from
                          /\ s.ship_id_to = ship_id_to
                          /\ s.price_usd = price_usd)
    IN  IF Len(candidates) = 0 THEN << >> ELSE <<candidates[1]>>

\* _resolve_upgrade_path: what _resolve_upgrade gives for each edge of the
\* path.
ResolveUpgradePath(g, upgrade_list, path) ==
    [i \in 1..(Len(path) - 1) |->
        ResolveUpgrade(upgrade_list, path[i], path[i + 1],
                       GetEdgeWeight(g, path[i], path[i + 1]))]

RECURSIVE SumPrices(_)
SumPrices(offers) ==
    IF offers = <<>> THEN 0 ELSE Head(offers).price_usd + SumPrices(Tail(offers))

\* get_upgrade_path without the try block around get_path: the KeyError of
\* an unreachable target leaves the method.
GetUpgradePathNoTry(g, upgrade_list, start_ship_id, target_ship_id) ==
    IF start_ship_id = SHIP_ID_NONE
    THEN {[result |-> "ValueError", upgrades |-> <<>>, total_cost |-> 0]}
    ELSE LET paths == GetPath(g, start_ship_id, target_ship_id) IN
         IF paths = {}
         THEN {[result |-> "KeyError", upgrades |-> <<>>, total_cost |-> 0]}
         ELSE { LET resolved == ResolveUpgradePath(g, upgrade_list, upgrade_path) IN
                IF \E i \in 1..Len(resolved) : resolved[i] = << >>
                THEN [result |-> "ValueError", upgrades |-> <<>>, total_cost |-> 0]
                ELSE LET steps == [i \in 1..Len(resolved) |-> resolved[i][1]] IN
                     [result |-> "UpgradePath", upgrades |-> steps,
                      total_cost |-> SumPrices(steps)]
                : upgrade_path \in paths }

\* get_upgrade_path without the check of start_ship_id: the search runs
\* from the origin as from any other node.
GetUpgradePathFromAnywhere(g, upgrade_list, start_ship_id, target_ship_id) ==
    LET paths == GetPath(g, start_ship_id, target_ship_id) IN
    IF paths = {}
    THEN {[result |-> "None", upgrades |-> <<>>, total_cost |-> 0]}
    ELSE { LET resolved == ResolveUpgradePath(g, upgrade_list, upgrade_path) IN
           IF \E i \in 1..Len(resolved) : resolved[i] = << >>
           THEN [result |-> "ValueError", upgrades |-> <<>>, total_cost |-> 0]
           ELSE LET steps == [i \in 1..Len(resolved) |-> resolved[i][1]] IN
                [result |-> "UpgradePath", upgrades |-> steps,
                 total_cost |-> SumPrices(steps)]
           : upgrade_path \in paths }

\* get_upgrade_path(start_ship_id, target_ship_id): every result the call
\* can have on the analyzer's graph g and list of upgrades.
GetUpgradePath(g, upgrade_list, start_ship_id, target_ship_id) ==
    IF start_ship_id = SHIP_ID_NONE
    THEN {[result |-> "ValueError", upgrades |-> <<>>, total_cost |-> 0]}
    ELSE LET paths == GetPath(g, start_ship_id, target_ship_id) IN
         IF paths = {}
         THEN {[result |-> "None", upgrades |-> <<>>, total_cost |-> 0]}
         ELSE { LET resolved == ResolveUpgradePath(g, upgrade_list, upgrade_path) IN
                IF \E i \in 1..Len(resolved) : resolved[i] = << >>
                THEN [result |-> "ValueError", upgrades |-> <<>>, total_cost |-> 0]
                ELSE LET steps == [i \in 1..Len(resolved) |-> resolved[i][1]] IN
                     [result |-> "UpgradePath", upgrades |-> steps,
                      total_cost |-> SumPrices(steps)]
                : upgrade_path \in paths }

\* _resolve_standalone: the first offer of the list for this ship at this
\* price; none when ValueError is raised.
ResolveStandalone(standalone_list, ship_id, price_usd) ==
    LET candidates == SelectSeq(standalone_list, LAMBDA s :
                          /\ s.ship_id = ship_id
                          /\ s.price_usd = price_usd)
    IN  IF Len(candidates) = 0 THEN << >> ELSE <<candidates[1]>>

\* The result of a call of get_purchase_path that raises.
Raised(exception) ==
    [result |-> exception, start_purchase |-> << >>, upgrades |-> <<>>,
     total_cost |-> 0]

\* get_purchase_path(target_ship_id): every result the call can have on the
\* analyzer's graph and lists.  get_path is called outside the try block:
\* its KeyError leaves the method, as do the IndexError of path[1] on the
\* path [origin] and the ValueError of the two resolvers.  total_cost is
\* the price of the starting offer plus the total of the upgrade path, as
\* PurchasePath.__repr__ reports it.
GetPurchasePath(g, standalone_list, upgrade_list, target_ship_id) ==
    LET paths == GetPath(g, SHIP_ID_NONE, target_ship_id) IN
    IF paths = {} THEN {Raised("KeyError")}
    ELSE { IF Len(path) < 2 THEN Raised("IndexError")
           ELSE LET starting_standalone ==
                        ResolveStandalone(standalone_list, path[2],
                                          GetEdgeWeight(g, path[1], path[2]))
                    resolved == ResolveUpgradePath(g, upgrade_list, Tail(path))
                IN  IF \/ starting_standalone = << >>
                       \/ \E i \in 1..Len(resolved) : resolved[i] = << >>
                    THEN Raised("ValueError")
                    ELSE LET steps == [i \in 1..Len(resolved) |-> resolved[i][1]] IN
                         [result |-> "PurchasePath",
                          start_purchase |-> starting_standalone,
                          upgrades |-> steps,
                          total_cost |-> starting_standalone[1].price_usd
                                             + SumPrices(steps)]
           : path \in paths }

(***************************************************************************)
(* src/data/provider.py: Expiry and the DataProviders.  A payload is the   *)
(* number of the get_data call whose scrape produced it; 0 is the data the *)
(* provider was constructed with.                                          *)
(***************************************************************************)
DataProviderType == {"SHIPS", "RSI_STANDALONES", "RSI_UPGRADES", "REDDIT_ENTRIES"}

\* The data_lifetime each provider class passes to DataProvider.__init__.
Lifetime(provider) ==
    CASE provider = "SHIPS" -> SHIP_DATA_EXPIRY
      [] provider = "RSI_STANDALONES" -> RSI_STANDALONE_DATA_EXPIRY
      [] provider = "RSI_UPGRADES" -> RSI_UPGRADE_DATA_EXPIRY
      [] provider = "REDDIT_ENTRIES" -> REDDIT_DATA_EXPIRY

\* An Optional[datetime]: << >> is None, <<t>> the time t.
NoTime == << >>
Time(t) == <<t>>

\* As IsExpired, expired already at the end of the lifetime.
IsExpiredAtLifetime(last_updated, lifetime, t) ==
    IF last_updated = NoTime THEN TRUE ELSE last_updated[1] + lifetime <= t

\* Expiry.is_expired
IsExpired(last_updated, lifetime, t) ==
    IF last_updated = NoTime THEN TRUE ELSE last_updated[1] + lifetime < t

\* The values expires_in is specified or written to return: None, a str, a
\* timedelta (of whole hours).
PyNone == [type |-> "NoneType"]
PyStr(s) == [type |-> "str", s |-> s]
PyTimedelta(hours) == [type |-> "timedelta", hours |-> hours]

\* str(n).zfill(2)
ZFill2(n) == IF n < 10 THEN "0" \o ToString(n) ELSE ToString(n)

\* format_timedelta(delta) of a delta of whole hours, not negative: the
\* days alone over two days, else the days, if any, before the time of day.
FormatTimedelta(hours) ==
    LET days == hours \div 24
        clock == ZFill2(hours % 24) \o ":00:00"
    IN  IF days > 2 THEN ToString(days) \o " days"
        ELSE IF days > 0 THEN ToString(days) \o " days, " \o clock
        ELSE clock

\* Expiry.expires_in
ExpiresIn(last_updated, lifetime, t) ==
    IF IsExpired(last_updated, lifetime, t)
    THEN PyStr("(not expired)")
    ELSE PyStr(FormatTimedelta(last_updated[1] + lifetime - t))

\* ShipDataProvider.get_data(force) on the providers' state p (last_updated
\* and _data of each provider), within the n-th call, at time t:
\* _refresh_data scrapes the ships and calls _update_expiry.  fetched is the
\* set of providers that scraped.
ShipGetData(force, p, t, n) ==
    IF IsExpired(p.data_expiry["SHIPS"], Lifetime("SHIPS"), t) \/ force
    THEN [data_expiry |-> [p.data_expiry EXCEPT !["SHIPS"] = Time(t)],
          data |-> [p.data EXCEPT !["SHIPS"] = n],
          ret |-> n, refreshed |-> TRUE, fetched |-> {"SHIPS"}]
    ELSE [data_expiry |-> p.data_expiry, data |-> p.data,
          ret |-> p.data["SHIPS"], refreshed |-> FALSE, fetched |-> {}]

\* _refresh_data of each provider class.  The official providers first ask
\* the ship provider for its data (get_data(), not forced), then scrape.
RefreshData(provider, p, t, n) ==
    IF provider = "SHIPS" THEN ShipGetData(TRUE, p, t, n)
    ELSE LET s == IF provider \in {"RSI_STANDALONES", "RSI_UPGRADES"}
                  THEN ShipGetData(FALSE, p, t, n)
                  ELSE [data_expiry |-> p.data_expiry, data |-> p.data,
                        fetched |-> {}]
         IN  [data_expiry |-> [s.data_expiry EXCEPT ![provider] = Time(t)],
              data |-> [s.data EXCEPT ![provider] = n],
              fetched |-> s.fetched \cup {provider}]

\* DataProvider.get_data(force) of the n-th call, at time t, on the
\* providers' state p.
GetData(provider, force, p, t, n) ==
    IF IsExpired(p.data_expiry[provider], Lifetime(provider), t) \/ force
    THEN LET r == RefreshData(provider, p, t, n) IN
         [data_expiry |-> r.data_expiry, data |-> r.data,
          ret |-> r.data[provider], refreshed |-> TRUE, fetched |-> r.fetched]
    ELSE [data_expiry |-> p.data_expiry, data |-> p.data,
          ret |-> p.data[provider], refreshed |-> FALSE, fetched |-> {}]

(***************************************************************************)
(* src/db/manager.py: the table of update logs.                            *)
(***************************************************************************)
\* _clean_update_logs, called by the constructor only.  At most
\* UPDATE_LOGS_ENTRY_LIMIT rows in the whole table: nothing is done.  More:
\* the query of the newest loaddate is filtered by data_type, which is no
\* attribute of UpdateLog (its column is update_type), and filter_by raises
\* InvalidRequestError before any row is deleted.
CleanUpdateLogs(logs) ==
    IF ~(Cardinality(logs) > UPDATE_LOGS_ENTRY_LIMIT)
    THEN [logs |-> logs, result |-> "ok"]
    ELSE [logs |-> logs, result |-> "InvalidRequestError"]

\* As get_loaddate, with the oldest loaddate of the rows of the category.
GetLoaddateOldest(logs, update_type) ==
    IF \A l \in logs : l.update_type # update_type
    THEN NoTime
    ELSE Time(Min({l.loaddate : l \in {m \in logs : m.update_type = update_type}}))

\* get_loaddate: the newest loaddate of the rows of the category, None when
\* it has no row.
GetLoaddate(logs, update_type) ==
    IF \A l \in logs : l.update_type # update_type
    THEN NoTime
    ELSE Time(Max({l.loaddate : l \in {m \in logs : m.update_type = update_type}}))

(***************************************************************************)
(* src/const.py: the thresholds of the fuzzy search.  The factor 0.3 is    *)
(* kept as the fraction 3/10: for every length below 100000 the float      *)
(* product length * 0.3 has the floor of the exact product.                *)
(***************************************************************************)
FUZZY_SEARCH_PERFECT_MATCH_MIN_SCORE == 90
FUZZY_SEARCH_MIN_SCORE_BASE == 65
FUZZY_SEARCH_MIN_SCORE_MAX_OFFSET == 10

\* floor(length * _FUZZY_SEARCH_LENGTH_OFFSET_FACTOR)
FloorOfScaledLength(length) == (length * 3) \div 10

\* As fuzzy_search_min_score, without the cap of the offset.
FuzzySearchMinScoreUncapped(length) ==
    FUZZY_SEARCH_MIN_SCORE_BASE - (10 - Max({FloorOfScaledLength(length), 0}))

\* As fuzzy_search_min_score, with the offset itself taken from the base.
FuzzySearchMinScoreFalling(length) ==
    FUZZY_SEARCH_MIN_SCORE_BASE
        - Min({Max({FloorOfScaledLength(length), 0}),
               FUZZY_SEARCH_MIN_SCORE_MAX_OFFSET})

\* fuzzy_search_min_score(length)
FuzzySearchMinScore(length) ==
    FUZZY_SEARCH_MIN_SCORE_BASE
        - (10 - Min({Max({FloorOfScaledLength(length), 0}),
                     FUZZY_SEARCH_MIN_SCORE_MAX_OFFSET}))

(***************************************************************************)
(* src/db/manager.py: find_ship_id_by_name.  The scorer (token_set_ratio   *)
(* of the fuzzywuzzy package) is an input of the model: scorer[c] is the   *)
(* score, 0..100, of the candidate string c against the name looked up.    *)
(***************************************************************************)
\* self._session.query(Ship).all()
QueryShips(db) == ById(db.ships)

\* ship.manufacturer: the rows the relationship can load.
ManufacturersOf(db, ship) == {m \in db.manufacturers : m.id = ship.manufacturer_id}

\* candidate_sets: the names of the ships, then the names of the ships after
\* the names of their manufacturers.
CandidateNames(db) == [i \in 1..Len(QueryShips(db)) |-> QueryShips(db)[i].name]

CandidateCompoundNames(db) ==
    [i \in 1..Len(QueryShips(db)) |->
        LET ship == QueryShips(db)[i]
            manufacturer == CHOOSE m \in ManufacturersOf(db, ship) : TRUE
        IN  manufacturer.name \o " " \o ship.name]

\* process.extract(name, candidate_set, scorer, limit): the limit choices of
\* the highest score in descending order of score, each with its score;
\* choices of one score keep the order of the candidate set.
RECURSIVE Largest(_, _)
Largest(results, limit) ==
    IF results = <<>> \/ limit = 0 THEN <<>>
    ELSE LET i == CHOOSE k \in 1..Len(results) :
                    /\ \A j \in 1..Len(results) : results[j].score <= results[k].score
                    /\ \A j \in 1..(k - 1) : results[j].score < results[k].score
         IN  <<results[i]>> \o
             Largest(SubSeq(results, 1, i - 1) \o SubSeq(results, i + 1, Len(results)),
                     limit - 1)

Extract(candidate_set, scorer, limit) ==
    Largest([i \in 1..Len(candidate_set) |->
                [choice |-> candidate_set[i], score |-> scorer[candidate_set[i]]]],
            limit)

\* The head of best_candidates without the sort by length: the first of the
\* candidates with the highest score.
BestCandidateUnsorted(results) ==
    LET max_score == Max({results[i].score : i \in 1..Len(results)})
        best_candidates == SelectSeq(results, LAMBDA c : c.score = max_score)
    IN  best_candidates[1]

\* The head of best_candidates after the sort by descending length, which
\* keeps the order of candidates of one length.
BestCandidate(results) ==
    LET max_score == Max({results[i].score : i \in 1..Len(results)})
        best_candidates == SelectSeq(results, LAMBDA c : c.score = max_score)
        i == CHOOSE k \in 1..Len(best_candidates) :
                /\ \A j \in 1..Len(best_candidates) :
                      Len(best_candidates[j].choice) <= Len(best_candidates[k].choice)
                /\ \A j \in 1..(k - 1) :
                      Len(best_candidates[j].choice) < Len(best_candidates[k].choice)
    IN  best_candidates[i]

\* _get_ship_id_by_name(s): the id of the first ship of that name, if any.
GetShipIdByName(db, s) ==
    LET result == SelectSeq(QueryShips(db), LAMBDA ship : ship.name = s)
    IN  IF Len(result) = 0 THEN << >> ELSE <<result[1].id>>

\* What find_ship_id_by_name returns when it returns None.
NotFound(name) ==
    [name |-> name, result |-> "None", ship_id |-> << >>, needs_review |-> FALSE,
     set |-> 0, candidate |-> "", score |-> 0]

\* As the body of the loop, with a match at the confident score itself
\* still flagged for review.
TryCandidateSetReviewAtConfident(db, name, scorer, candidate_set, set) ==
    LET result == BestCandidate(Extract(candidate_set, scorer, 3)) IN
    IF result.score >= FuzzySearchMinScore(Min({Len(name), Len(result.choice)}))
    THEN LET ship_id == GetShipIdByName(db, result.choice) IN
         IF ship_id # << >>
         THEN [name |-> name, result |-> "Found", ship_id |-> ship_id,
               needs_review |-> (result.score <= FUZZY_SEARCH_PERFECT_MATCH_MIN_SCORE),
               set |-> set, candidate |-> result.choice, score |-> result.score]
         ELSE NotFound(name)
    ELSE NotFound(name)

\* The body of the loop over the candidate sets: the best candidate of the
\* set, accepted when its score reaches the threshold for the shorter of
\* name and candidate and a ship carries the candidate as its name.
TryCandidateSet(db, name, scorer, candidate_set, set) ==
    LET result == BestCandidate(Extract(candidate_set, scorer, 3)) IN
    IF result.score >= FuzzySearchMinScore(Min({Len(name), Len(result.choice)}))
    THEN LET ship_id == GetShipIdByName(db, result.choice) IN
         IF ship_id # << >>
         THEN [name |-> name, result |-> "Found", ship_id |-> ship_id,
               needs_review |-> (result.score < FUZZY_SEARCH_PERFECT_MATCH_MIN_SCORE),
               set |-> set, candidate |-> result.choice, score |-> result.score]
         ELSE NotFound(name)
    ELSE NotFound(name)

\* find_ship_id_by_name(name): None, or the ship id and the needs_review
\* flag; set, candidate and score are what the log line of the call names.
\* A ship without manufacturer row ends the call with AttributeError when
\* the compound names are formed.
FindShipIdByName(db, name, scorer) ==
    IF Len(QueryShips(db)) = 0 \/ name = "" \/ name = "\""
    THEN NotFound(name)
    ELSE IF \E i \in 1..Len(QueryShips(db)) :
                ManufacturersOf(db, QueryShips(db)[i]) = {}
    THEN [NotFound(name) EXCEPT !.result = "AttributeError"]
    ELSE LET first == TryCandidateSet(db, name, scorer, CandidateNames(db), 1)
             second == TryCandidateSet(db, name, scorer,
                                       CandidateCompoundNames(db), 2)
         IN  IF first.result = "Found" THEN first ELSE second

(***************************************************************************)
(* src/broker.py: _update_reddit_entries.  An entry is a parsed record of  *)
(* a community post; scorers[name] is the scorer's table for a name.       *)
(***************************************************************************)
\* What the loop appends for a standalone entry whose name has the look-up
\* f: an offer when the name is resolved, nothing when it is not.
StandaloneOf(entry, f) ==
    [standalones |->
         IF f.result = "Found"
         THEN <<[type |-> "Standalone", ship_id |-> f.ship_id[1],
                 price_usd |-> entry.price_usd, store_id |-> entry.store_id,
                 needs_review |-> f.needs_review]>>
         ELSE <<>>,
     upgrades |-> <<>>, lookup |-> f, raised |-> f.result = "AttributeError"]

\* As UpgradeOf, with needs_review = all([needs_review_from,
\* needs_review_to]).
UpgradeOfReviewIfBoth(entry, from, to) ==
    [standalones |-> <<>>,
     upgrades |->
         IF from.result = "Found" /\ to.result = "Found"
         THEN <<[type |-> "Upgrade", ship_id_from |-> from.ship_id[1],
                 ship_id_to |-> to.ship_id[1],
                 price_usd |-> entry.price_usd, store_id |-> entry.store_id,
                 needs_review |-> (from.needs_review /\ to.needs_review)]>>
         ELSE <<>>,
     lookup |-> IF from.result = "AttributeError" THEN from ELSE to,
     raised |-> "AttributeError" \in {from.result, to.result}]

\* What the loop appends for an upgrade entry whose names have the look-ups
\* from and to.
UpgradeOf(entry, from, to) ==
    [standalones |-> <<>>,
     upgrades |->
         IF from.result = "Found" /\ to.result = "Found"
         THEN <<[type |-> "Upgrade", ship_id_from |-> from.ship_id[1],
                 ship_id_to |-> to.ship_id[1],
                 price_usd |-> entry.price_usd, store_id |-> entry.store_id,
                 needs_review |-> (from.needs_review \/ to.needs_review)]>>
         ELSE <<>>,
     lookup |-> IF from.result = "AttributeError" THEN from ELSE to,
     raised |-> "AttributeError" \in {from.result, to.result}]

\* The offers built from one entry, with the outcome of the last look-up:
\* none when a name of the entry is not resolved.  entry.store_id is the id
\* of the store find_store returns for the entry.
ResolveEntry(db, entry, scorers) ==
    IF entry.update_type = "REDDIT_STANDALONES"
    THEN StandaloneOf(entry, FindShipIdByName(db, entry.ship_name,
                                              scorers[entry.ship_name]))
    ELSE UpgradeOf(entry,
                   FindShipIdByName(db, entry.ship_name_from,
                                    scorers[entry.ship_name_from]),
                   FindShipIdByName(db, entry.ship_name_to,
                                    scorers[entry.ship_name_to]))

\* The lists of the loop after one more entry with the outcome r.
WithEntry(acc, r) ==
    IF r.raised
    THEN [acc EXCEPT !.lookup = r.lookup, !.raised = TRUE]
    ELSE [standalones |-> acc.standalones \o r.standalones,
          upgrades |-> acc.upgrades \o r.upgrades,
          lookup |-> r.lookup, raised |-> FALSE]

\* As the loop over the entries, ended by the first entry that is not
\* resolved.
RECURSIVE RedditCandidatesUntilUnresolved(_, _, _, _)
RedditCandidatesUntilUnresolved(db, entries, scorers, acc) ==
    IF entries = <<>> \/ acc.raised THEN acc
    ELSE LET r == ResolveEntry(db, Head(entries), scorers) IN
         RedditCandidatesUntilUnresolved(db,
             IF r.standalones = <<>> /\ r.upgrades = <<>>
             THEN <<>> ELSE Tail(entries),
             scorers, WithEntry(acc, r))

\* The loop over the entries: the lists standalones and upgrades it builds
\* from the list of entries, starting from the lists in acc; an exception
\* of a look-up ends it.
RECURSIVE RedditCandidates(_, _, _, _)
RedditCandidates(db, entries, scorers, acc) ==
    IF entries = <<>> \/ acc.raised THEN acc
    ELSE RedditCandidates(db, Tail(entries), scorers,
             WithEntry(acc, ResolveEntry(db, Head(entries), scorers)))


(***************************************************************************)
(* src/broker.py: complete_update and the refresh of each category.  The   *)
(* broker's state b is the database, the update logs, the providers, the   *)
(* analyzer's snapshot and the last look-up, with what the call has done   *)
(* so far: the providers that sent a request (fetched), the categories     *)
(* whose update_* returned (updated), the number of PathAnalyzer.update()  *)
(* calls (rebuilt) and whether an exception left the call (raised).        *)
(* fetch[provider] is the answer of the provider's endpoint: "ok" with the *)
(* payload, "failed" (a status other than 200, a body that does not        *)
(* parse), or "raised" (the request itself raises).                        *)
(***************************************************************************)
\* What the scraper returns for an answer: the records when the endpoint
\* answered, the empty list it started from when the answer was a failure.
Returned(answer) ==
    IF answer.outcome = "ok" THEN answer.payload ELSE <<>>

\* The ids of a list of ships.
IdsOf(ship_list) == {ship_list[i].id : i \in 1..Len(ship_list)}

\* get_ships, get_standalones(ships), get_upgrades(ships) and
\* get_parsed_submissions: the official offers are built for the ships
\* passed in only.
ScraperGet(provider, answer, ship_list) ==
    CASE provider = "RSI_STANDALONES" ->
           SelectSeq(Returned(answer), LAMBDA e : e.ship_id \in IdsOf(ship_list))
      [] provider = "RSI_UPGRADES" ->
           SelectSeq(Returned(answer), LAMBDA e : e.ship_id_from \in IdsOf(ship_list))
      [] OTHER -> Returned(answer)

\* The providers after the scrape of one provider: _data is replaced and
\* _update_expiry is called, unless the request raised.
Scrape(provider, fetch, s, t) ==
    IF s.raised THEN s
    ELSE IF fetch[provider].outcome = "raised"
    THEN [s EXCEPT !.raised = TRUE, !.fetched = @ \cup {provider}]
    ELSE [s EXCEPT !.p.data_expiry[provider] = Time(t),
                   !.p.data[provider] =
                       ScraperGet(provider, fetch[provider], s.p.data["SHIPS"]),
                   !.fetched = @ \cup {provider}]

\* _refresh_data of each provider class: the official offer providers
\* first ask the ship provider for its data (get_data(), not forced).
RefreshDataFrom(provider, fetch, s, t) ==
    IF provider \in {"RSI_STANDALONES", "RSI_UPGRADES"}
         /\ IsExpired(s.p.data_expiry["SHIPS"], Lifetime("SHIPS"), t)
    THEN Scrape(provider, fetch, Scrape("SHIPS", fetch, s, t), t)
    ELSE Scrape(provider, fetch, s, t)

\* As GetDataFrom, the data refreshed whenever it is asked for.
GetDataFromAlways(provider, force, fetch, p, t) ==
    RefreshDataFrom(provider, fetch,
                    [p |-> p, raised |-> FALSE, fetched |-> {}, refreshed |-> TRUE], t)

\* DataProvider.get_data(force) with the answers of the endpoints: the
\* providers afterwards, whether the data was refreshed, the providers that
\* sent a request and whether an exception left the call.
GetDataFrom(provider, force, fetch, p, t) ==
    IF IsExpired(p.data_expiry[provider], Lifetime(provider), t) \/ force
    THEN RefreshDataFrom(provider, fetch,
                         [p |-> p, raised |-> FALSE, fetched |-> {},
                          refreshed |-> TRUE], t)
    ELSE [p |-> p, raised |-> FALSE, fetched |-> {}, refreshed |-> FALSE]

\* The order in which the set built from a list of at most one distinct
\* entity is iterated.
TheOrder(entities) == CHOOSE order \in Orders(EntitiesSet(entities)) : TRUE

\* The element of a set of one element.
The(S) == CHOOSE x \in S : TRUE

\* A PathAnalyzer.update() that leaves the snapshot as it was.
RebuiltNever(b) == [b EXCEPT !.rebuilt = @ + 1]

\* PathAnalyzer.update() on the broker's state.
Rebuilt(b) ==
    [b EXCEPT !.a_standalones = GetAllStandalones(b.db, FALSE),
              !.a_upgrades = GetAllUpgrades(b.db, FALSE),
              !.graph = BuildGraph(GetAllStandalones(b.db, FALSE),
                                   GetAllUpgrades(b.db, FALSE)),
              !.rebuilt = @ + 1]

\* The trailing PathAnalyzer.update() of a refresh.
ThenRebuilt(b) == IF b.raised THEN b ELSE Rebuilt(b)

\* The broker's state after get_data returned or raised g.
Got(b, g) ==
    [b EXCEPT !.p = g.p, !.raised = g.raised, !.fetched = @ \cup g.fetched]

\* The broker's state after a call of update_<update_type>(entities).
Updated(b, update_type, entities, t) ==
    The({ [b EXCEPT !.db = out.db, !.logs = out.logs,
                    !.raised = (out.result # "ok"),
                    !.updated = IF out.result = "ok"
                                THEN Append(@, update_type) ELSE @] :
          out \in {CategoryUpdate(update_type, entities, b.db, b.logs, t,
                                  TheOrder(entities))} })

\* The broker's state after the calls of update_*, each <<update_type,
\* entities>>, one after the other; an exception ends them.
RECURSIVE UpdatedAll(_, _, _)
UpdatedAll(b, calls, t) ==
    IF calls = <<>> \/ b.raised THEN b
    ELSE The({ UpdatedAll(b1, Tail(calls), t) :
               b1 \in {Updated(b, Head(calls)[1], Head(calls)[2], t)} })

\* The store the broker attaches to the official offers.
InStore(list, store_id) ==
    [i \in 1..Len(list) |-> [store_id |-> store_id] @@ list[i]]

\* The manufacturers of a list of ships.
ManufacturersIn(ship_list) ==
    [i \in 1..Len(ship_list) |-> ship_list[i].manufacturer]

\* The calls of update_* in the body of "if updated or force" of
\* _update_ships, _update_rsi_standalones and _update_rsi_upgrades, with
\* the list get_data returned.
Reconciling(provider, list, b) ==
    [b |-> b,
     calls |->
        CASE provider = "SHIPS" ->
               << <<"MANUFACTURERS", ManufacturersIn(list)>>, <<"SHIPS", list>> >>
          [] provider = "RSI_STANDALONES" ->
               << <<"RSI_STANDALONES", InStore(list, 1)>> >>
          [] provider = "RSI_UPGRADES" ->
               << <<"RSI_UPGRADES", InStore(list, 1)>> >>]

\* The calls of update_* in the body of "if updated or force" of
\* _update_reddit_entries, after the loop over the entries: none when a
\* look-up raised.
ReconcilingEntries(entries, scorers, b) ==
    The({ [b |-> [b EXCEPT !.lookup = c.lookup, !.raised = c.raised],
           calls |-> << <<"REDDIT_STANDALONES", c.standalones>>,
                        <<"REDDIT_UPGRADES", c.upgrades>> >>] :
          c \in {RedditCandidates(b.db, entries, scorers,
                                  [standalones |-> <<>>, upgrades |-> <<>>,
                                   lookup |-> b.lookup, raised |-> FALSE])} })

\* The part of a refresh after get_data returned or raised g: nothing when
\* the data was not refreshed and the update is not forced.
AfterGet(provider, force, scorers, b, g, t) ==
    IF g.raised \/ ~(g.refreshed \/ force) THEN Got(b, g)
    ELSE The({ ThenRebuilt(b2) :
               b2 \in { UpdatedAll(r.b, r.calls, t) :
                        r \in { IF provider = "REDDIT_ENTRIES"
                                THEN ReconcilingEntries(g.p.data[provider],
                                                        scorers, Got(b, g))
                                ELSE Reconciling(provider, g.p.data[provider],
                                                 Got(b, g)) } } })

\* _update_ships, _update_rsi_standalones, _update_rsi_upgrades and
\* _update_reddit_entries: get_data and, if the data was refreshed or the
\* update is forced, the update of the category's tables and of the
\* analyzer.
BrokerUpdate(provider, force, fetch, scorers, b, t) ==
    The({ AfterGet(provider, force, scorers, b, g, t) :
          g \in {GetDataFrom(provider, force, fetch, b.p, t)} })

\* The refreshes of a call of the broker, one after the other; an exception
\* ends them.
RECURSIVE Refreshes(_, _, _, _, _, _)
Refreshes(order, force, fetch, scorers, b, t) ==
    IF order = <<>> \/ b.raised THEN b
    ELSE The({ Refreshes(Tail(order), force, fetch, scorers, b1, t) :
               b1 \in {BrokerUpdate(Head(order), force, fetch, scorers, b, t)} })

\* As RefreshOrder, with the community posts processed first in
\* complete_update.
RefreshOrderCommunityFirst(op) ==
    CASE op = "complete_update" ->
           <<"REDDIT_ENTRIES", "SHIPS", "RSI_STANDALONES", "RSI_UPGRADES">>
      [] op = "get_ships" -> <<"SHIPS">>
      [] op = "get_upgrades" -> <<"RSI_UPGRADES">>

\* The refreshes of complete_update, of get_ships and of get_upgrades.
RefreshOrder(op) ==
    CASE op = "complete_update" ->
           <<"SHIPS", "RSI_STANDALONES", "RSI_UPGRADES", "REDDIT_ENTRIES">>
      [] op = "get_ships" -> <<"SHIPS">>
      [] op = "get_upgrades" -> <<"RSI_UPGRADES">>

\* complete_update(force), get_ships(force_update) and
\* get_upgrades(force_update) of the broker: the refreshes and, in
\* complete_update, one more PathAnalyzer.update().
BrokerOp(op, force, fetch, scorers, b, t) ==
    The({ IF op = "complete_update" THEN ThenRebuilt(b1) ELSE b1 :
          b1 \in {Refreshes(RefreshOrder(op), force, fetch, scorers, b, t)} })

(***************************************************************************)
(* Inputs of the category updates.                                         *)
(***************************************************************************)
ShipIds == {1, 2}
PathShips == {1, 2, 3}
Prices == {10}
CheapPrice == 5
DearPrice == 10

ManufacturerCands ==
    { [type |-> "Manufacturer", id |-> 1, name |-> "Aegis", code |-> "AEGS"],
      [type |-> "Manufacturer", id |-> 2, name |-> "Anvil", code |-> "ANVL"] }

ShipName(id) == IF id = 1 THEN "Gladius" ELSE "Carrack"

\* The ship records as the scraper builds them: the id is the ship's id at
\* the storefront, the manufacturer object is attached.
ShipCands ==
    { [type |-> "Ship", id |-> 1, name |-> ShipName(1), manufacturer_id |-> m.id,
       manufacturer |-> m] : m \in ManufacturerCands }

StandaloneCands(ship_ids, store_id, reviews) ==
    { [type |-> "Standalone", ship_id |-> s, price_usd |-> p,
       store_id |-> store_id, needs_review |-> r] :
         s \in ship_ids, p \in Prices, r \in reviews }

UpgradeCands(store_id, reviews) ==
    { [type |-> "Upgrade", ship_id_from |-> 1, ship_id_to |-> 2, price_usd |-> p,
       store_id |-> store_id, needs_review |-> r] :
         p \in Prices, r \in reviews }

\* The object 1 of the tests (update_ships([1])).
Foreign == [type |-> "int", value |-> 1]

\* The official offers come confirmed from store 1, the community offers
\* from store 2 with either value of needs_review.
Cands(update_type) ==
    CASE update_type = "MANUFACTURERS" -> ManufacturerCands
      [] update_type = "SHIPS" -> ShipCands
      [] update_type = "RSI_STANDALONES" -> StandaloneCands(ShipIds, 1, {FALSE})
      [] update_type = "RSI_UPGRADES" -> UpgradeCands(1, {FALSE})
      [] update_type = "REDDIT_STANDALONES" -> StandaloneCands({1}, 2, BOOLEAN)
      [] update_type = "REDDIT_UPGRADES" -> UpgradeCands(2, BOOLEAN)

\* What a caller may also put into a list: the foreign object and, for the
\* ships, a record of another entity class.
Strangers(update_type) ==
    {Foreign} \cup
    (IF update_type = "SHIPS" THEN StandaloneCands({1}, 1, {FALSE}) ELSE {})

ListsOver(S, max) == UNION {[1..n -> S] : n \in 0..max}

\* The lists of the offer catalog's behaviours: the lists of offers for the
\* four offer categories; for the ships and the manufacturers the two lists
\* of the tests, [] and [1].
OfferLists ==
    [update_type \in UpdateType |->
        CASE update_type \in {"MANUFACTURERS", "SHIPS"} -> {<<>>, <<Foreign>>}
          [] update_type \in {"RSI_UPGRADES", "REDDIT_UPGRADES"} ->
                ListsOver(Cands(update_type) \cup {Foreign}, MaxUpgradeCands)
          [] OTHER -> ListsOver(Cands(update_type) \cup {Foreign}, MaxCands)]

\* The lists of the ship catalog's behaviours.
ShipLists ==
    [update_type \in {"MANUFACTURERS", "SHIPS"} |->
        ListsOver(Cands(update_type) \cup Strangers(update_type), MaxCands)]

\* The clock advances by one of these amounts: a row loaded at time 0 is seen
\* on and just over its horizon (ages 1, 2, 24, 25 and 1, 2, 168, 169).
OfferTickSteps == {REDDIT_DATA_EXPIRY, RSI_STANDALONE_DATA_EXPIRY}
ProviderTickSteps == {REDDIT_DATA_EXPIRY, RSI_STANDALONE_DATA_EXPIRY, SHIP_DATA_EXPIRY}
ShipTickSteps == {1, SHIP_DATA_EXPIRY}

(***************************************************************************)
(* The EntityManager and the PathAnalyzer as a state machine.              *)
(***************************************************************************)
DB == [manufacturers |-> manufacturers, ships |-> ships,
       standalones |-> standalones, upgrades |-> upgrades]

NoCall == [update_type |-> None, len_entities |-> 0, len_set |-> 0,
           result |-> None, ret |-> None, cleaned_count |-> None, at |-> 0,
           deletion |-> {}]

NoQuery == [op |-> None, start |-> 0, target |-> 0, result |-> None,
            upgrades |-> <<>>, total_cost |-> 0]

NoGet == [provider |-> None, force |-> FALSE, refreshed |-> FALSE, ret |-> None,
          fetched |-> {}, at |-> 0, n |-> 0]

\* No call of expires_in yet.
NoRemaining == [called |-> FALSE, last_updated |-> NoTime, lifetime |-> 0, at |-> 0,
                ret |-> PyNone]

\* No call yet: the result is neither "None" nor "Found".
NoFind == [name |-> "", result |-> "", ship_id |-> << >>, needs_review |-> FALSE,
           set |-> 0, candidate |-> "", score |-> 0]

NoScore == [called |-> FALSE, length |-> 0, min_score |-> 0]

NoBatch ==
    [called |-> FALSE, force |-> FALSE, updated |-> FALSE, raised |-> FALSE,
     entries |-> <<>>, scorers |-> <<>>, standalones |-> <<>>,
     upgrades |-> <<>>]

\* No call of the broker yet.
NoRefresh ==
    [op |-> None, force |-> FALSE, fetch |-> <<>>, scorers |-> <<>>,
     before |-> <<>>, at |-> 0, n |-> 0, raised |-> FALSE, fetched |-> {},
     updated |-> <<>>, rebuilt |-> 0]

\* No update() in progress.
NoRebuild == [pc |-> "idle", i |-> 0,
              old |-> [graph |-> EmptyGraph, standalones |-> <<>>, upgrades |-> <<>>]]

InitCatalog ==
    /\ manufacturers = {}
    /\ ships = {}
    /\ standalones = {}
    /\ upgrades = {}
    /\ updateLogs = {}
    /\ last = NoCall

InitAnalyzer ==
    /\ graph = EmptyGraph
    /\ a_standalones = <<>>
    /\ a_upgrades = <<>>
    /\ query = NoQuery

\* A Broker on a new database: get_loaddate() is None for every category and
\* the tables the initial data is read from are empty.
InitProviders ==
    /\ data_expiry = [provider \in DataProviderType |-> NoTime]
    /\ data = [provider \in DataProviderType |-> 0]
    /\ got = NoGet
    /\ remaining = NoRemaining

\* No name has been looked up, no threshold computed, no batch processed,
\* and no update() is in progress.
InitResolver ==
    /\ lookup = NoFind
    /\ scored = NoScore
    /\ batch = NoBatch
    /\ rebuild = NoRebuild
    /\ refresh = NoRefresh

Init ==
    /\ now = 0
    /\ InitCatalog
    /\ InitAnalyzer
    /\ InitProviders
    /\ InitResolver

\* The clock advances.
Advance(steps) ==
    /\ \E d \in steps :
          /\ now + d \in TimesWithin(steps, MaxTicks)
          /\ now' = now + d
    /\ UNCHANGED <<catalogVars, analyzerVars, providerVars, resolverVars, brokerVars, rebuildVars>>

\* A call of update_manufacturers, update_ships, update_rsi_standalones, ...
Update(update_type, entities) ==
    /\ Cardinality(updateLogs) < MaxLogs
    /\ \E order \in Orders(EntitiesSet(entities)) :
          LET out == CategoryUpdate(update_type, entities, DB, updateLogs, now, order)
          IN
          /\ manufacturers' = out.db.manufacturers
          /\ ships' = out.db.ships
          /\ standalones' = out.db.standalones
          /\ upgrades' = out.db.upgrades
          /\ updateLogs' = out.logs
          /\ last' = [update_type |-> update_type, len_entities |-> Len(entities),
                      len_set |-> Len(order), result |-> out.result,
                      ret |-> out.ret, cleaned_count |-> out.cleaned_count,
                      at |-> now, deletion |-> out.deletion]
    /\ UNCHANGED <<now, analyzerVars, providerVars, resolverVars, brokerVars, rebuildVars>>

\* PathAnalyzer.update()
AnalyzerUpdate ==
    /\ a_standalones' = GetAllStandalones(DB, FALSE)
    /\ a_upgrades' = GetAllUpgrades(DB, FALSE)
    /\ graph' = BuildGraph(a_standalones', a_upgrades')
    /\ UNCHANGED <<now, catalogVars, query, providerVars, resolverVars, brokerVars, rebuildVars>>

(***************************************************************************)
(* Spec: the offer catalog and the analyzer's snapshot of it.              *)
(***************************************************************************)
Tick == Advance(OfferTickSteps)

UpdateCall ==
    \E update_type \in UpdateType :
        \E entities \in OfferLists[update_type] :
            Update(update_type, entities)

Next ==
    \/ Tick
    \/ UpdateCall
    \/ AnalyzerUpdate

Spec == Init /\ [][Next]_vars

(***************************************************************************)
(* SpecShips: the ship and manufacturer catalog.                           *)
(***************************************************************************)
ShipTick == Advance(ShipTickSteps)

ShipUpdateCall ==
    \E update_type \in {"MANUFACTURERS", "SHIPS"} :
        \E entities \in ShipLists[update_type] :
            Update(update_type, entities)

NextShips ==
    \/ ShipTick
    \/ ShipUpdateCall

SpecShips == Init /\ [][NextShips]_vars

(***************************************************************************)
(* SpecProvider: the data providers and the clock.                         *)
(***************************************************************************)
Providers == [data_expiry |-> data_expiry, data |-> data]

\* A call of get_data(force) on one of the providers.
GetDataCall(provider, force) ==
    /\ got.n < MaxGets
    /\ LET out == GetData(provider, force, Providers, now, got.n + 1) IN
          /\ data_expiry' = out.data_expiry
          /\ data' = out.data
          /\ got' = [provider |-> provider, force |-> force,
                     refreshed |-> out.refreshed, ret |-> out.ret,
                     fetched |-> out.fetched, at |-> now, n |-> got.n + 1]
    /\ UNCHANGED <<now, remaining, catalogVars, analyzerVars, resolverVars, brokerVars, rebuildVars>>

ProviderTick == Advance(ProviderTickSteps)

ProviderCall ==
    \E provider \in DataProviderType :
        \E force \in BOOLEAN :
            GetDataCall(provider, force)

NextProvider ==
    \/ ProviderTick
    \/ ProviderCall

SpecProvider == Init /\ [][NextProvider]_vars

(***************************************************************************)
(* SpecPath: the analyzer's path queries over a catalog of upgrades.       *)
(***************************************************************************)
PathPairs == {<<1, 2>>, <<2, 3>>, <<1, 3>>}

\* The prices asked for an upgrade: both for the step 1 -> 2, the cheap one
\* for 2 -> 3, the dear one for the direct upgrade 1 -> 3.
PathPrices(pair) ==
    CASE pair = <<1, 2>> -> {CheapPrice, DearPrice}
      [] pair = <<2, 3>> -> {CheapPrice}
      [] pair = <<1, 3>> -> {DearPrice}

\* The upgrade offers of the catalogs: official ones, and community ones
\* confirmed or awaiting review.
PathUpgrades ==
    UNION { { [ship_id_from |-> pair[1], ship_id_to |-> pair[2],
               price_usd |-> price, store_id |-> seller[1],
               needs_review |-> seller[2]] :
                 price \in PathPrices(pair),
                 seller \in {<<1, FALSE>>, <<2, FALSE>>, <<2, TRUE>>} } :
            pair \in PathPairs }

\* The upgrade tables with up to MaxOffers rows: the ids follow the order in
\* which the offers were inserted, no two rows share a natural key.
PathCatalogs ==
    { {[id |-> i, ship_id_from |-> offers[i].ship_id_from,
        ship_id_to |-> offers[i].ship_id_to, price_usd |-> offers[i].price_usd,
        store_id |-> offers[i].store_id, needs_review |-> offers[i].needs_review,
        loaddate |-> 0] : i \in 1..Len(offers)} :
      offers \in { o \in UNION {[1..n -> PathUpgrades] : n \in 0..MaxOffers} :
                     \A i \in 1..Len(o) : \A j \in 1..Len(o) :
                         UpgradeKey(o[i]) = UpgradeKey(o[j]) => i = j } }

InitPath ==
    /\ now = 0
    /\ manufacturers = {}
    /\ ships = {}
    /\ standalones = {}
    /\ upgrades \in PathCatalogs
    /\ updateLogs = {}
    /\ last = NoCall
    /\ InitAnalyzer
    /\ InitProviders
    /\ InitResolver

\* A call of get_upgrade_path(start_ship_id, target_ship_id).
UpgradePathQuery(start_ship_id, target_ship_id) ==
    /\ \E out \in GetUpgradePath(graph, a_upgrades, start_ship_id, target_ship_id) :
          query' = [op |-> "get_upgrade_path", start |-> start_ship_id,
                    target |-> target_ship_id, result |-> out.result,
                    upgrades |-> out.upgrades, total_cost |-> out.total_cost]
    /\ UNCHANGED <<now, catalogVars, graph, a_standalones, a_upgrades,
                   providerVars, resolverVars, brokerVars, rebuildVars>>

PathQueryCall ==
    \E start_ship_id \in PathShips \cup {SHIP_ID_NONE} :
        \E target_ship_id \in PathShips :
            UpgradePathQuery(start_ship_id, target_ship_id)

NextPath ==
    \/ AnalyzerUpdate
    \/ PathQueryCall

SpecPath == InitPath /\ [][NextPath]_vars

(***************************************************************************)
(* SpecPurchase: the analyzer's purchase-path queries over a catalog of    *)
(* standalone and upgrade offers.                                          *)
(***************************************************************************)
\* The prices asked for a standalone ship: both for ship 1, ten times the
\* dear one for ship 3.
PurchasePrices(ship_id) ==
    IF ship_id = 1 THEN {CheapPrice, DearPrice} ELSE {10 * DearPrice}

\* The standalone offers of the catalogs: ship 1 from the official store
\* and from the community (confirmed or awaiting review), ship 3 from the
\* official store.
PurchaseStandalones ==
    UNION { { [ship_id |-> ship_seller[1], price_usd |-> price,
               store_id |-> ship_seller[2], needs_review |-> ship_seller[3]] :
                 price \in PurchasePrices(ship_seller[1]) } :
            ship_seller \in {<<1, 1, FALSE>>, <<1, 2, FALSE>>, <<1, 2, TRUE>>,
                             <<3, 1, FALSE>>} }

\* The upgrade offers of the catalogs: 1 -> 2 at the dear price and 2 -> 3
\* at twice the dear price, official or from the community awaiting review.
PurchaseUpgrades ==
    { [ship_id_from |-> pair[1], ship_id_to |-> pair[2],
       price_usd |-> (pair[1] * DearPrice), store_id |-> seller[1],
       needs_review |-> seller[2]] :
         pair \in {<<1, 2>>, <<2, 3>>}, seller \in {<<1, FALSE>>, <<2, TRUE>>} }

\* The lists of up to max offers, no two of them with the same natural key.
OfferSeqs(offers, max, Key(_)) ==
    { o \in UNION {[1..n -> offers] : n \in 0..max} :
        \A i \in 1..Len(o) : \A j \in 1..Len(o) : Key(o[i]) = Key(o[j]) => i = j }

\* The tables of the catalogs: the ids follow the order of insertion.
PurchaseStandaloneTables ==
    { {[id |-> i, ship_id |-> o[i].ship_id, price_usd |-> o[i].price_usd,
        store_id |-> o[i].store_id, needs_review |-> o[i].needs_review,
        loaddate |-> 0] : i \in 1..Len(o)} :
      o \in OfferSeqs(PurchaseStandalones, MaxPurchaseOffers, StandaloneKey) }

PurchaseUpgradeTables ==
    { {[id |-> i, ship_id_from |-> o[i].ship_id_from,
        ship_id_to |-> o[i].ship_id_to, price_usd |-> o[i].price_usd,
        store_id |-> o[i].store_id, needs_review |-> o[i].needs_review,
        loaddate |-> 0] : i \in 1..Len(o)} :
      o \in OfferSeqs(PurchaseUpgrades, MaxPurchaseOffers, UpgradeKey) }

InitPurchase ==
    /\ now = 0
    /\ manufacturers = {}
    /\ ships = {}
    /\ standalones \in PurchaseStandaloneTables
    /\ upgrades \in PurchaseUpgradeTables
    /\ updateLogs = {}
    /\ last = NoCall
    /\ InitAnalyzer
    /\ InitProviders
    /\ InitResolver

\* A call of get_purchase_path(target_ship_id).
PurchasePathQuery(target_ship_id) ==
    /\ \E out \in GetPurchasePath(graph, a_standalones, a_upgrades, target_ship_id) :
          query' = [op |-> "get_purchase_path", start |-> SHIP_ID_NONE,
                    target |-> target_ship_id, result |-> out.result,
                    start_purchase |-> out.start_purchase,
                    upgrades |-> out.upgrades, total_cost |-> out.total_cost]
    /\ UNCHANGED <<now, catalogVars, graph, a_standalones, a_upgrades,
                   providerVars, resolverVars, brokerVars, rebuildVars>>

PurchaseQueryCall ==
    \E target_ship_id \in PathShips : PurchasePathQuery(target_ship_id)

NextPurchase ==
    \/ AnalyzerUpdate
    \/ PurchaseQueryCall

SpecPurchase == InitPurchase /\ [][NextPurchase]_vars

(***************************************************************************)
(* SpecDirect: purchase-path queries over catalogs in which a ship can be  *)
(* bought directly at two prices or reached by an upgrade.                 *)
(***************************************************************************)
\* The standalone offers of the catalogs: ship 1 at the cheap price, ship 2
\* at the dear price and at ten times the dear price, all official.
DirectStandalones ==
    { [ship_id |-> offer[1], price_usd |-> offer[2], store_id |-> 1,
       needs_review |-> FALSE] :
         offer \in {<<1, CheapPrice>>, <<2, DearPrice>>, <<2, 10 * DearPrice>>} }

DirectStandaloneTables ==
    { {[id |-> i, ship_id |-> o[i].ship_id, price_usd |-> o[i].price_usd,
        store_id |-> o[i].store_id, needs_review |-> o[i].needs_review,
        loaddate |-> 0] : i \in 1..Len(o)} :
      o \in OfferSeqs(DirectStandalones, Cardinality(DirectStandalones),
                      StandaloneKey) }

InitDirect ==
    /\ now = 0
    /\ manufacturers = {}
    /\ ships = {}
    /\ standalones \in DirectStandaloneTables
    /\ upgrades \in PurchaseUpgradeTables
    /\ updateLogs = {}
    /\ last = NoCall
    /\ InitAnalyzer
    /\ InitProviders
    /\ InitResolver

NextDirect ==
    \/ AnalyzerUpdate
    \/ PurchaseQueryCall

SpecDirect == InitDirect /\ [][NextDirect]_vars

(***************************************************************************)
(* SpecMinScore: calls of fuzzy_search_min_score.                          *)
(***************************************************************************)
Lengths == 0..MaxLength

MinScoreCall(length) ==
    /\ scored' = [called |-> TRUE, length |-> length,
                  min_score |-> FuzzySearchMinScore(length)]
    /\ UNCHANGED <<now, catalogVars, analyzerVars, providerVars, lookup, brokerVars, rebuildVars>>

NextMinScore == \E length \in Lengths : MinScoreCall(length)

SpecMinScore == Init /\ [][NextMinScore]_vars

(***************************************************************************)
(* SpecResolver: look-ups of ship names in a catalog of ships.             *)
(***************************************************************************)
\* The ships of the catalogs, each with the id of its manufacturer; the
\* name of the third one is also what the first one gives after the name of
\* its manufacturer.
ResolverShips == {<<"Gladius", 1>>, <<"Carrack", 2>>, <<"Aegis Gladius", 2>>}

\* The table of the manufacturers.
ResolverManufacturers ==
    { [id |-> 1, name |-> "Aegis", code |-> "AEGS"],
      [id |-> 2, name |-> "Anvil", code |-> "ANVL"] }

\* The tables of up to MaxShips ships: the ids follow the order of
\* insertion, no two ships share a name (the column is unique).
ResolverShipTables ==
    { {[id |-> i, name |-> s[i][1], manufacturer_id |-> s[i][2], loaddate |-> 0] :
         i \in 1..Len(s)} :
      s \in { t \in UNION {[1..n -> ResolverShips] : n \in 0..MaxShips} :
                \A i \in 1..Len(t) : \A j \in 1..Len(t) :
                    t[i][1] = t[j][1] => i = j } }

\* The names looked up: the two the guard rejects, the name of a ship, and
\* a name that is no ship's.
LookupNames == {"", "\"", "Gladius", "Aegis Gladiator"}

\* The scores the scorer gives: below every threshold, the threshold of a
\* name of seven characters, the highest score that needs review, the
\* confident score.
ScoreValues == {FuzzySearchMinScore(0) + 1, FuzzySearchMinScore(7),
                FUZZY_SEARCH_PERFECT_MATCH_MIN_SCORE - 1,
                FUZZY_SEARCH_PERFECT_MATCH_MIN_SCORE}

\* The candidate strings of a catalog, and the scorers over them.
CandidateStrings(db) ==
    {CandidateNames(db)[i] : i \in 1..Len(QueryShips(db))} \cup
    {CandidateCompoundNames(db)[i] : i \in 1..Len(QueryShips(db))}

Scorers(db) == [CandidateStrings(db) -> ScoreValues]

InitResolverCatalog ==
    /\ now = 0
    /\ manufacturers = ResolverManufacturers
    /\ ships \in ResolverShipTables
    /\ standalones = {}
    /\ upgrades = {}
    /\ updateLogs = {}
    /\ last = NoCall
    /\ InitAnalyzer
    /\ InitProviders
    /\ InitResolver

\* A call of find_ship_id_by_name(name).
FindCall(name, scorer) ==
    /\ lookup' = FindShipIdByName(DB, name, scorer)
    /\ UNCHANGED <<now, catalogVars, analyzerVars, providerVars, scored, brokerVars, rebuildVars>>

NextResolver ==
    \E name \in LookupNames : \E scorer \in Scorers(DB) : FindCall(name, scorer)

SpecResolver == InitResolverCatalog /\ [][NextResolver]_vars

(***************************************************************************)
(* SpecBroker: the broker's ingestion of community posts, with the name    *)
(* look-ups it rests on.                                                   *)
(***************************************************************************)
\* The names in the entries.
EntryNames == {"Gladius", "Aegis Gladiator"}

\* The parsed entries: offers of store 2 for a ship or for an upgrade
\* between two ships.
RedditEntries ==
    { [update_type |-> "REDDIT_STANDALONES", ship_name |-> n,
       price_usd |-> DearPrice, store_id |-> 2] : n \in EntryNames } \cup
    { [update_type |-> "REDDIT_UPGRADES", ship_name_from |-> e[1],
       ship_name_to |-> e[2], price_usd |-> DearPrice, store_id |-> 2] :
      e \in {f \in EntryNames \X EntryNames : f[1] # f[2]} }

EntryLists == UNION {[1..n -> RedditEntries] : n \in 0..MaxEntries}

\* The scorers that give every candidate of the catalog one score.
UniformScorers(db) ==
    { [c \in CandidateStrings(db) |-> v] :
        v \in {FuzzySearchMinScore(0) + 1, FUZZY_SEARCH_PERFECT_MATCH_MIN_SCORE - 1,
               FUZZY_SEARCH_PERFECT_MATCH_MIN_SCORE} }

\* A Broker over a catalog of ships and no offers; the community provider
\* was constructed with no load date or with the one of this hour.
InitBroker ==
    /\ now = 0
    /\ manufacturers = ResolverManufacturers
    /\ ships \in ResolverShipTables
    /\ standalones = {}
    /\ upgrades = {}
    /\ updateLogs = {}
    /\ last = NoCall
    /\ InitAnalyzer
    /\ data_expiry \in { [provider \in DataProviderType |->
                            IF provider = "REDDIT_ENTRIES" THEN e ELSE NoTime] :
                         e \in {NoTime, Time(0)} }
    /\ data = [provider \in DataProviderType |-> 0]
    /\ got = NoGet
    /\ remaining = NoRemaining
    /\ InitResolver

\* The summary of an update_* call that is kept in last.
Summary(update_type, entities, order, t, out) ==
    [update_type |-> update_type, len_entities |-> Len(entities),
     len_set |-> Len(order), result |-> out.result, ret |-> out.ret,
     cleaned_count |-> out.cleaned_count, at |-> t, deletion |-> out.deletion]

\* A call of _update_reddit_entries(force); entries is what the scraper
\* returns when the provider refreshes its data.
UpdateRedditEntries(force, entries, scorers) ==
    /\ got.n < MaxGets
    /\ Cardinality(updateLogs) + 2 <= MaxLogs
    /\ \E g \in {GetData("REDDIT_ENTRIES", force, Providers, now, got.n + 1)} :
       /\ data_expiry' = g.data_expiry
       /\ data' = g.data
       /\ got' = [provider |-> "REDDIT_ENTRIES", force |-> force,
                  refreshed |-> g.refreshed, ret |-> g.ret, fetched |-> g.fetched,
                  at |-> now, n |-> got.n + 1]
       /\ IF ~(g.refreshed \/ force)
          THEN /\ batch' = [NoBatch EXCEPT !.called = TRUE, !.force = force]
               /\ UNCHANGED <<catalogVars, analyzerVars, lookup>>
          ELSE \E c \in {RedditCandidates(DB, entries, scorers,
                              [standalones |-> <<>>, upgrades |-> <<>>,
                               lookup |-> lookup, raised |-> FALSE])} :
               /\ lookup' = c.lookup
               /\ batch' = [called |-> TRUE, force |-> force,
                            updated |-> g.refreshed, raised |-> c.raised,
                            entries |-> entries, scorers |-> scorers,
                            standalones |-> c.standalones,
                            upgrades |-> c.upgrades]
               /\ IF c.raised
                  THEN UNCHANGED <<catalogVars, analyzerVars>>
                  ELSE \E order1 \in Orders(EntitiesSet(c.standalones)) :
                       \E order2 \in Orders(EntitiesSet(c.upgrades)) :
                       \E u1 \in {CategoryUpdate("REDDIT_STANDALONES",
                                       c.standalones, DB, updateLogs, now, order1)} :
                       \E u2 \in {IF u1.result = "ok"
                                  THEN CategoryUpdate("REDDIT_UPGRADES", c.upgrades,
                                           u1.db, u1.logs, now, order2)
                                  ELSE u1} :
                          /\ manufacturers' = u2.db.manufacturers
                          /\ ships' = u2.db.ships
                          /\ standalones' = u2.db.standalones
                          /\ upgrades' = u2.db.upgrades
                          /\ updateLogs' = u2.logs
                          /\ last' = IF u1.result = "ok"
                                     THEN Summary("REDDIT_UPGRADES", c.upgrades,
                                                  order2, now, u2)
                                     ELSE Summary("REDDIT_STANDALONES",
                                                  c.standalones, order1, now, u1)
                          /\ IF u2.result = "ok"
                             THEN /\ a_standalones' = GetAllStandalones(u2.db, FALSE)
                                  /\ a_upgrades' = GetAllUpgrades(u2.db, FALSE)
                                  /\ graph' = BuildGraph(a_standalones', a_upgrades')
                                  /\ UNCHANGED query
                             ELSE UNCHANGED analyzerVars
    /\ UNCHANGED <<now, remaining, scored, refresh, rebuildVars>>

\* What the scraper returns to the call: nothing is scraped when the data
\* of the provider is neither expired nor forced.
Scraped(force) ==
    IF IsExpired(data_expiry["REDDIT_ENTRIES"], Lifetime("REDDIT_ENTRIES"), now)
           \/ force
    THEN EntryLists
    ELSE {<<>>}

BrokerCall ==
    \E force \in BOOLEAN : \E entries \in Scraped(force) :
        \E scorers \in [EntryNames -> UniformScorers(DB)] :
            UpdateRedditEntries(force, entries, scorers)

NextBroker ==
    BrokerCall

SpecBroker == InitBroker /\ [][NextBroker]_vars


(***************************************************************************)
(* SpecLogs: the table of update logs over the lifetimes of the            *)
(* EntityManager.                                                          *)
(***************************************************************************)
LogTickSteps == {1}

\* The category of the rows the database holds at the start.
LoggedCategory == "RSI_STANDALONES"

\* The categories updated.
LogCategories == {"RSI_STANDALONES", "REDDIT_STANDALONES", "SHIPS"}

\* The update logs after n updates of a category at time 0.
LogsOf(update_type, n) ==
    {[id |-> i, update_type |-> update_type, loaddate |-> 0] : i \in 1..n}

\* An EntityManager on a database whose category was updated some times
\* before, up to the limit of the update logs; the tables of the entities
\* are empty.
InitLogs ==
    /\ now = 0
    /\ manufacturers = {}
    /\ ships = {}
    /\ standalones = {}
    /\ upgrades = {}
    /\ updateLogs \in {LogsOf(LoggedCategory, n) :
                         n \in (UPDATE_LOGS_ENTRY_LIMIT - 2)..UPDATE_LOGS_ENTRY_LIMIT}
    /\ last = NoCall
    /\ InitAnalyzer
    /\ InitProviders
    /\ InitResolver

LogsTick == Advance(LogTickSteps)

\* A call of update_* with no candidates.
LoggedUpdate(update_type) ==
    /\ Cardinality(updateLogs) < UPDATE_LOGS_ENTRY_LIMIT + MaxLogCalls
    /\ \E out \in {CategoryUpdate(update_type, <<>>, DB, updateLogs, now, <<>>)} :
          /\ manufacturers' = out.db.manufacturers
          /\ ships' = out.db.ships
          /\ standalones' = out.db.standalones
          /\ upgrades' = out.db.upgrades
          /\ updateLogs' = out.logs
          /\ last' = Summary(update_type, <<>>, <<>>, now, out)
    /\ UNCHANGED <<now, analyzerVars, providerVars, resolverVars, brokerVars, rebuildVars>>

LoggedUpdateCall == \E update_type \in LogCategories : LoggedUpdate(update_type)

\* The program is started again: EntityManager.__init__ on the database.
EntityManagerInit ==
    /\ \E out \in {CleanUpdateLogs(updateLogs)} :
          /\ updateLogs' = out.logs
          /\ last' = [NoCall EXCEPT !.update_type = "EntityManager",
                                    !.result = out.result, !.at = now]
    /\ UNCHANGED <<now, manufacturers, ships, standalones, upgrades,
                   analyzerVars, providerVars, resolverVars, brokerVars, rebuildVars>>

NextLogs ==
    \/ LogsTick
    \/ LoggedUpdateCall
    \/ EntityManagerInit

SpecLogs == InitLogs /\ [][NextLogs]_vars


(***************************************************************************)
(* SpecCommit: the standalone offers of the two stores, with calls of      *)
(* update_* that end between two commits.                                  *)
(***************************************************************************)
CommitTypes == {"RSI_STANDALONES", "REDDIT_STANDALONES"}

CommitTick == Advance(OfferTickSteps)

\* The behaviours end with the call during which the process ends.
CommitUpdateCall ==
    /\ last.result # "Interrupted"
    /\ \E update_type \in CommitTypes :
          \E entities \in OfferLists[update_type] :
              Update(update_type, entities)

\* A call of update_* during which the process ends, after at least one
\* and before the last of the commits of the call: the database file is
\* as the last commit left it.
InterruptedUpdate(update_type, entities) ==
    /\ last.result # "Interrupted"
    /\ Cardinality(updateLogs) < MaxLogs
    /\ \E order \in Orders(EntitiesSet(entities)) :
       \E out \in {CategoryUpdate(update_type, entities, DB, updateLogs, now, order)} :
       \E commits \in {CommittedStates(update_type, entities, DB, updateLogs,
                                       now, out)} :
       \E i \in 1..(Len(commits) - 1) :
          /\ manufacturers' = commits[i].db.manufacturers
          /\ ships' = commits[i].db.ships
          /\ standalones' = commits[i].db.standalones
          /\ upgrades' = commits[i].db.upgrades
          /\ updateLogs' = commits[i].logs
          /\ last' = [Summary(update_type, entities, order, now, out)
                          EXCEPT !.result = "Interrupted", !.ret = i]
    /\ UNCHANGED <<now, analyzerVars, providerVars, resolverVars, brokerVars, rebuildVars>>

InterruptedUpdateCall ==
    \E update_type \in CommitTypes :
        \E entities \in OfferLists[update_type] :
            InterruptedUpdate(update_type, entities)

NextCommit ==
    \/ CommitTick
    \/ CommitUpdateCall
    \/ InterruptedUpdateCall

SpecCommit == Init /\ [][NextCommit]_vars


(***************************************************************************)
(* SpecRebuild: PathAnalyzer.update() statement by statement, with path    *)
(* queries of another thread between its statements.  The analyzer has no  *)
(* lock.                                                                   *)
(***************************************************************************)
\* The catalogs of official upgrade offers.
RebuildCatalogs == {c \in PathCatalogs : \A r \in c : r.store_id = 1}

\* The snapshot of the analyzer: the graph and the lists of offers that
\* resolve its edges.
SnapshotOf(g, standalone_list, upgrade_list) ==
    [graph |-> g, standalones |-> standalone_list, upgrades |-> upgrade_list]

\* A PathAnalyzer over a catalog, new or after an update().
InitRebuild ==
    /\ now = 0
    /\ manufacturers = {}
    /\ ships = {}
    /\ standalones = {}
    /\ upgrades \in RebuildCatalogs
    /\ updateLogs = {}
    /\ last = NoCall
    /\ \/ InitAnalyzer
       \/ /\ a_standalones = GetAllStandalones(DB, FALSE)
          /\ a_upgrades = GetAllUpgrades(DB, FALSE)
          /\ graph = BuildGraph(a_standalones, a_upgrades)
          /\ query = NoQuery
    /\ InitProviders
    /\ InitResolver

\* self._graph = Graph()
RebuildStart ==
    /\ rebuild.pc = "idle"
    /\ graph' = EmptyGraph
    /\ rebuild' = [pc |-> "standalones", i |-> 0,
                   old |-> SnapshotOf(graph, a_standalones, a_upgrades)]
    /\ UNCHANGED <<now, catalogVars, a_standalones, a_upgrades, query,
                   providerVars, resolverVars, brokerVars>>

\* self._standalones = self._em.get_all_standalones(include_unconfirmed=False)
RebuildStandalones ==
    /\ rebuild.pc = "standalones"
    /\ a_standalones' = GetAllStandalones(DB, FALSE)
    /\ rebuild' = [rebuild EXCEPT !.pc = "upgrades"]
    /\ UNCHANGED <<now, catalogVars, graph, a_upgrades, query,
                   providerVars, resolverVars, brokerVars>>

\* self._upgrades = self._em.get_all_upgrades(include_unconfirmed=False)
RebuildUpgrades ==
    /\ rebuild.pc = "upgrades"
    /\ a_upgrades' = GetAllUpgrades(DB, FALSE)
    /\ rebuild' = [rebuild EXCEPT !.pc = "edges", !.i = 1]
    /\ UNCHANGED <<now, catalogVars, graph, a_standalones, query,
                   providerVars, resolverVars, brokerVars>>

\* One pass of the two loops: add_edge for the next standalone, or for the
\* next upgrade when the standalones are done; update() returns after the
\* last one.
RebuildEdge ==
    /\ rebuild.pc = "edges"
    /\ IF rebuild.i <= Len(a_standalones)
       THEN graph' = AddEdge(graph, SHIP_ID_NONE, a_standalones[rebuild.i].ship_id,
                             a_standalones[rebuild.i].price_usd)
       ELSE IF rebuild.i <= Len(a_standalones) + Len(a_upgrades)
       THEN graph' = AddEdge(graph,
                             a_upgrades[rebuild.i - Len(a_standalones)].ship_id_from,
                             a_upgrades[rebuild.i - Len(a_standalones)].ship_id_to,
                             a_upgrades[rebuild.i - Len(a_standalones)].price_usd)
       ELSE UNCHANGED graph
    /\ rebuild' = IF rebuild.i >= Len(a_standalones) + Len(a_upgrades)
                  THEN [rebuild EXCEPT !.pc = "idle", !.i = 0]
                  ELSE [rebuild EXCEPT !.i = @ + 1]
    /\ UNCHANGED <<now, catalogVars, a_standalones, a_upgrades, query,
                   providerVars, resolverVars, brokerVars>>

NextRebuild ==
    \/ RebuildStart
    \/ RebuildStandalones
    \/ RebuildUpgrades
    \/ RebuildEdge
    \/ PathQueryCall

SpecRebuild == InitRebuild /\ [][NextRebuild]_vars

(***************************************************************************)
(* SpecExpiry: calls of expires_in on the providers' Expiry objects, which *)
(* were constructed without a load date or with the one of hour 0.         *)
(***************************************************************************)
ExpiryTickSteps == {1, 100}

InitExpiry ==
    /\ now = 0
    /\ InitCatalog
    /\ InitAnalyzer
    /\ data_expiry \in [DataProviderType -> {NoTime, Time(0)}]
    /\ data = [provider \in DataProviderType |-> 0]
    /\ got = NoGet
    /\ remaining = NoRemaining
    /\ InitResolver

ExpiryTick == Advance(ExpiryTickSteps)

\* A call of data_expiry.expires_in() on a provider.
ExpiresInOf(provider) ==
    /\ remaining' = [called |-> TRUE, last_updated |-> data_expiry[provider],
                     lifetime |-> Lifetime(provider), at |-> now,
                     ret |-> ExpiresIn(data_expiry[provider], Lifetime(provider), now)]
    /\ UNCHANGED <<now, catalogVars, analyzerVars, data_expiry, data, got,
                   resolverVars, brokerVars, rebuildVars>>

ExpiresInCall == \E provider \in DataProviderType : ExpiresInOf(provider)

NextExpiry ==
    \/ ExpiryTick
    \/ ExpiresInCall

SpecExpiry == InitExpiry /\ [][NextExpiry]_vars

(***************************************************************************)
(* SpecRefresh: the broker's refresh of the categories from the endpoints, *)
(* with the answers of the endpoints as its inputs.                        *)
(***************************************************************************)
RefreshTickSteps == {RSI_STANDALONE_DATA_EXPIRY + 1}

\* The lists the endpoints deliver: a ship, an
\* official standalone and an official upgrade (the store is attached by the
\* broker), and a parsed community post.
Payloads ==
    [provider \in DataProviderType |->
        CASE provider = "SHIPS" -> {<<s>> : s \in {c \in ShipCands : c.manufacturer_id = 1}}
          [] provider = "RSI_STANDALONES" ->
                {<<e>> : e \in StandaloneCands({1}, 0, {FALSE})}
          [] provider = "RSI_UPGRADES" -> {<<e>> : e \in UpgradeCands(0, {FALSE})}
          [] provider = "REDDIT_ENTRIES" ->
                {<<e>> : e \in {r \in RedditEntries :
                                  r.update_type = "REDDIT_STANDALONES"
                                    /\ r.ship_name = "Gladius"}}]

\* The answers of an endpoint.  The scrapers of the official endpoints
\* return what they have collected when the status is not 200; the client
\* of the community endpoint has no such branch.
AnswersOf(provider) ==
    {[outcome |-> "ok", payload |-> l] : l \in Payloads[provider]} \cup
    {[outcome |-> "raised", payload |-> <<>>]} \cup
    (IF provider = "REDDIT_ENTRIES" THEN {}
     ELSE {[outcome |-> "failed", payload |-> <<>>]})

\* The answers of the endpoints during one call: at most one endpoint does
\* not answer with its list.
Fetches ==
    {f \in [DataProviderType -> UNION {AnswersOf(provider) : provider \in DataProviderType}] :
        /\ \A provider \in DataProviderType : f[provider] \in AnswersOf(provider)
        /\ Cardinality({provider \in DataProviderType : f[provider].outcome # "ok"}) <= 1}

\* The candidate strings of the catalogs the ship payloads lead to, and
\* the scorers that give every one of them one score.
RefreshStrings == {"Gladius", "Aegis Gladius"}

RefreshScorers ==
    { [n \in EntryNames |-> [c \in RefreshStrings |-> v]] :
        v \in {FUZZY_SEARCH_PERFECT_MATCH_MIN_SCORE} }

\* A Broker on a new database: no category has a load date, the providers
\* are constructed with the empty tables.
InitRefresh ==
    /\ now = 0
    /\ InitCatalog
    /\ InitAnalyzer
    /\ data_expiry = [provider \in DataProviderType |-> NoTime]
    /\ data = [provider \in DataProviderType |-> <<>>]
    /\ got = NoGet
    /\ remaining = NoRemaining
    /\ InitResolver

\* The broker's state between two calls.
BrokerNow ==
    [db |-> DB, logs |-> updateLogs, p |-> Providers, graph |-> graph,
     a_standalones |-> a_standalones, a_upgrades |-> a_upgrades,
     lookup |-> lookup, raised |-> FALSE, fetched |-> {}, updated |-> <<>>,
     rebuilt |-> 0]

\* A call of the broker, with the answers the endpoints give during it.
BrokerDoes(op, force, fetch, scorers) ==
    /\ refresh.n < MaxRefreshes
    /\ \E b \in {BrokerOp(op, force, fetch, scorers, BrokerNow, now)} :
          /\ manufacturers' = b.db.manufacturers
          /\ ships' = b.db.ships
          /\ standalones' = b.db.standalones
          /\ upgrades' = b.db.upgrades
          /\ updateLogs' = b.logs
          /\ data_expiry' = b.p.data_expiry
          /\ data' = b.p.data
          /\ graph' = b.graph
          /\ a_standalones' = b.a_standalones
          /\ a_upgrades' = b.a_upgrades
          /\ lookup' = b.lookup
          /\ refresh' = [op |-> op, force |-> force, fetch |-> fetch,
                         scorers |-> scorers, before |-> BrokerNow, at |-> now,
                         n |-> refresh.n + 1, raised |-> b.raised,
                         fetched |-> b.fetched, updated |-> b.updated,
                         rebuilt |-> b.rebuilt]
    /\ UNCHANGED <<now, last, query, got, remaining, scored, batch, rebuildVars>>

RefreshTick == Advance(RefreshTickSteps)

BrokerOps == {"complete_update", "get_ships", "get_upgrades"}

RefreshCall ==
    \E op \in BrokerOps : \E force \in BOOLEAN :
        \E fetch \in Fetches : \E scorers \in RefreshScorers :
            BrokerDoes(op, force, fetch, scorers)

NextRefresh ==
    \/ RefreshTick
    \/ RefreshCall

SpecRefresh == InitRefresh /\ [][NextRefresh]_vars

(***************************************************************************)
(* SpecEvict: the broker's operations over a storefront that lists one or  *)
(* two ships, with the clock passing the horizon of the ships.             *)
(***************************************************************************)
EvictTickSteps == {SHIP_DATA_EXPIRY + 1}

\* The ship with this id as the scraper builds it.
StoreShip(id) ==
    [type |-> "Ship", id |-> id, name |-> ShipName(id), manufacturer_id |-> 1,
     manufacturer |-> The({m \in ManufacturerCands : m.id = 1})]

\* The ids of the ships the storefront lists during a call.
Storefronts == {<<1>>, <<1, 2>>}

\* What the endpoints deliver for a storefront: its ships, a standalone
\* offer for the last of them, the upgrade from ship 1 to ship 2 when it
\* lists both, and no community post.
StorePayload(provider, ids) ==
    CASE provider = "SHIPS" -> [i \in 1..Len(ids) |-> StoreShip(ids[i])]
      [] provider = "RSI_STANDALONES" ->
            <<The(StandaloneCands({ids[Len(ids)]}, 0, {FALSE}))>>
      [] provider = "RSI_UPGRADES" ->
            IF Len(ids) = 2 THEN <<The(UpgradeCands(0, {FALSE}))>> ELSE <<>>
      [] provider = "REDDIT_ENTRIES" -> <<>>

\* Every endpoint answers with its list.
StoreFetch(ids) ==
    [provider \in DataProviderType |->
        [outcome |-> "ok", payload |-> StorePayload(provider, ids)]]

\* The answers of the endpoints during one call, one for each storefront.
StoreFetches == {StoreFetch(ids) : ids \in Storefronts}

EvictTick == Advance(EvictTickSteps)

EvictCall ==
    \E op \in BrokerOps : \E force \in BOOLEAN :
        \E fetch \in StoreFetches : \E scorers \in RefreshScorers :
            BrokerDoes(op, force, fetch, scorers)

NextEvict ==
    \/ EvictTick
    \/ EvictCall

SpecEvict == InitRefresh /\ [][NextEvict]_vars

(***************************************************************************)
(* Vocabulary of the properties.                                           *)
(***************************************************************************)
OfferTypes == {"RSI_STANDALONES", "RSI_UPGRADES",
               "REDDIT_STANDALONES", "REDDIT_UPGRADES"}

\* The entity class of a category.
EntityType(update_type) ==
    CASE update_type = "MANUFACTURERS" -> "Manufacturer"
      [] update_type = "SHIPS" -> "Ship"
      [] update_type \in {"RSI_STANDALONES", "REDDIT_STANDALONES"} -> "Standalone"
      [] update_type \in {"RSI_UPGRADES", "REDDIT_UPGRADES"} -> "Upgrade"

\* The staleness horizon of a category.
Horizon(update_type) ==
    CASE update_type = "SHIPS" -> SHIP_DATA_EXPIRY
      [] update_type = "RSI_STANDALONES" -> RSI_STANDALONE_DATA_EXPIRY
      [] update_type = "RSI_UPGRADES" -> RSI_UPGRADE_DATA_EXPIRY
      [] update_type \in {"REDDIT_STANDALONES", "REDDIT_UPGRADES"} -> REDDIT_DATA_EXPIRY

\* The natural key of an offer.
KeyOf(e) == IF HasAttr(e, "ship_id") THEN StandaloneKey(e) ELSE UpgradeKey(e)

\* The table a category's rows live in.
TableOf(db, update_type) ==
    CASE EntityType(update_type) = "Manufacturer" -> db.manufacturers
      [] EntityType(update_type) = "Ship" -> db.ships
      [] EntityType(update_type) = "Standalone" -> db.standalones
      [] EntityType(update_type) = "Upgrade" -> db.upgrades

WellTyped(update_type, entities) ==
    \A i \in 1..Len(entities) : TypeOf(entities[i]) = EntityType(update_type)

\* The natural keys of the offers of a candidate list.
KeysOf(update_type, entities) ==
    { KeyOf(entities[i]) :
        i \in {j \in 1..Len(entities) :
                 TypeOf(entities[j]) = EntityType(update_type)} }

\* Every way a call of the category update can end from the current state.
Outcomes(update_type, entities, db, logs, t) ==
    { CategoryUpdate(update_type, entities, db, logs, t, order) :
        order \in Orders(EntitiesSet(entities)) }

OutcomesNow(update_type, entities) ==
    Outcomes(update_type, entities, DB, updateLogs, now)

(***************************************************************************)
(* Properties of the data providers (SpecProvider).                        *)
(***************************************************************************)

\* The cache of a provider is expired: never refreshed, or refreshed more
\* than the provider's lifetime ago.
Expired(provider, p, t) ==
    \/ p.data_expiry[provider] = NoTime
    \/ t > p.data_expiry[provider][1] + Lifetime(provider)

\* C1: get_data(force) fetches (_refresh_data) if and only if force is true
\* or the cache is expired (never refreshed, or now > last refresh +
\* lifetime).  When it fetches, it replaces the payload by the fetched one,
\* sets the time of the last refresh to now and returns refreshed = true;
\* otherwise it returns the cached payload with refreshed = false and leaves
\* payload and time of the last refresh as they were.  A get that is not
\* forced, issued after a refresh within the lifetime, returns
\* refreshed = false.
C1_FetchIffForcedOrExpired ==
    \A provider \in DataProviderType :
        \A force \in BOOLEAN :
            LET n == got.n + 1
                out == GetData(provider, force, Providers, now, n)
            IN  /\ provider \in out.fetched <=>
                       (force \/ Expired(provider, Providers, now))
                /\ provider \in out.fetched =>
                       /\ out.data[provider] = n
                       /\ out.data_expiry[provider] = Time(now)
                       /\ out.ret = n
                       /\ out.refreshed
                       /\ \A d \in 0..Lifetime(provider) :
                             LET again == GetData(provider, FALSE,
                                     [data_expiry |-> out.data_expiry,
                                      data |-> out.data], now + d, n + 1)
                             IN  /\ ~again.refreshed
                                 /\ again.fetched = {}
                                 /\ again.ret = n
                /\ provider \notin out.fetched =>
                       /\ out.ret = data[provider]
                       /\ ~out.refreshed
                       /\ out.data[provider] = data[provider]
                       /\ out.data_expiry[provider] = data_expiry[provider]

\* A get that was not forced has returned the payload of an earlier refresh
\* with refreshed = false, exactly one lifetime after that refresh.
C1_Witness ==
    /\ got.provider \in DataProviderType
    /\ ~got.force
    /\ ~got.refreshed
    /\ got.fetched = {}
    /\ got.at = now
    /\ data_expiry[got.provider] # NoTime
    /\ now = data_expiry[got.provider][1] + Lifetime(got.provider)
    /\ got.ret = data[got.provider]
    /\ got.ret > 0

(***************************************************************************)
(* Properties of the category updates of the offer catalog (Spec).         *)
(***************************************************************************)

\* C2: whenever a category update is called with a non-empty list of records
\* of the category's type and returns normally, every candidate's natural
\* key is held by a row of the catalog afterwards, also when a row with that
\* key was evicted as stale earlier in the same call.
C2_CandidatesPersisted ==
    \A update_type \in OfferTypes :
        \A entities \in OfferLists[update_type] :
            (Len(entities) > 0 /\ WellTyped(update_type, entities)) =>
                \A out \in OutcomesNow(update_type, entities) :
                    out.result = "ok" =>
                        \A i \in 1..Len(entities) :
                            EntityExists(entities[i], out.db) = "T"

\* C3: whenever a category update is called twice in a row with the same
\* non-empty candidate list, the first call returns a nonzero count when none
\* of the keys is in the catalog yet, and the second call returns 0.
C3_SecondCallReturnsZero ==
    \A update_type \in OfferTypes :
        \A entities \in OfferLists[update_type] :
            (Len(entities) > 0 /\ WellTyped(update_type, entities)) =>
                \A first \in OutcomesNow(update_type, entities) :
                    first.result = "ok" =>
                        /\ (\A i \in 1..Len(entities) :
                                EntityExists(entities[i], DB) = "F")
                               => first.ret > 0
                        /\ \A second \in Outcomes(update_type, entities,
                                                  first.db, first.logs, now) :
                               second.result = "ok" /\ second.ret = 0

\* C4: in every reachable state of the catalog no two Standalone rows share
\* (ship, price, store) and no two Upgrade rows share (from ship, to ship,
\* price, store), whatever duplicates the candidate lists held and however
\* often the same candidates were ingested.
C4_NoDuplicateOffers ==
    /\ \A r1 \in standalones : \A r2 \in standalones :
          StandaloneKey(r1) = StandaloneKey(r2) => r1 = r2
    /\ \A r1 \in upgrades : \A r2 \in upgrades :
          UpgradeKey(r1) = UpgradeKey(r2) => r1 = r2

\* A call whose list held two candidates of one key, and that key was
\* already a row of the catalog.
C4_Witness ==
    /\ last.update_type \in {"RSI_STANDALONES", "REDDIT_STANDALONES"}
    /\ last.result = "ok"
    /\ last.len_entities = 2
    /\ last.len_set = 1
    /\ last.cleaned_count = 1
    /\ last.ret = 0
    /\ standalones # {}

\* The rows of the catalog that hold the natural key of row r.
RowsWithKey(db, update_type, r) ==
    {q \in TableOf(db, update_type) : KeyOf(q) = KeyOf(r)}

\* The offers the analyzer's next update() builds its graph from, and against
\* which it resolves the edges of a path.
EdgeOffers(db) ==
    LET standalone_list == GetAllStandalones(db, FALSE)
        upgrade_list == GetAllUpgrades(db, FALSE)
    IN  {standalone_list[i] : i \in 1..Len(standalone_list)} \cup
        {upgrade_list[i] : i \in 1..Len(upgrade_list)}

\* What C5 says of one call: every row of the category that is older than
\* the category's horizon and whose key is not among the candidates is gone
\* after the call, and no offer of the next graph carries its key.
StaleRowsEvicted(update_type, entities) ==
    \A out \in OutcomesNow(update_type, entities) :
        \A r \in GetEntities(update_type, DB, TRUE) :
            (now - r.loaddate > Horizon(update_type)
             /\ KeyOf(r) \notin KeysOf(update_type, entities)) =>
                /\ RowsWithKey(out.db, update_type, r) = {}
                /\ \A o \in EdgeOffers(out.db) :
                      DOMAIN o = DOMAIN r => KeyOf(o) # KeyOf(r)

\* C5: for every category update call, every row of that category that is
\* older than the category's staleness horizon and whose natural key is
\* absent from the candidate list (an empty list included) is no longer in
\* the catalog afterwards and has no edge in the graph of the next
\* PathAnalyzer.update().
C5_StaleRowsEvicted ==
    \A update_type \in OfferTypes :
        \A entities \in OfferLists[update_type] :
            StaleRowsEvicted(update_type, entities)

\* C5, for the calls with a non-empty candidate list: every row of the
\* category older than the horizon whose key is absent from the candidates
\* is gone after the call and has no edge in the next graph.
C5_StaleRowsEvictedNonEmpty ==
    \A update_type \in OfferTypes :
        \A entities \in OfferLists[update_type] :
            Len(entities) > 0 => StaleRowsEvicted(update_type, entities)

\* A call with a non-empty list evicted a row whose key was not among the
\* candidates and added another one; the analyzer has been updated since.
C5_Witness ==
    /\ last.update_type \in OfferTypes
    /\ last.result = "ok"
    /\ last.len_entities > 0
    /\ last.ret > 0
    /\ \E r \in last.deletion : RowsWithKey(DB, last.update_type, r) = {}
    /\ a_standalones = GetAllStandalones(DB, FALSE)
    /\ a_upgrades = GetAllUpgrades(DB, FALSE)
    /\ graph = BuildGraph(a_standalones, a_upgrades)
    /\ \E o \in EdgeOffers(DB) : o.loaddate = last.at
    /\ last.at > 0

\* C6: a call that returns normally leaves a row of the category with the
\* call's time as its loaddate when a candidate of the call has the row's
\* natural key, and leaves the loaddate of every other row that persists
\* unchanged; so a row that every refresh reaffirms never goes stale.
C6_LoaddateRefreshed ==
    \A update_type \in OfferTypes :
        \A entities \in OfferLists[update_type] :
            \A out \in OutcomesNow(update_type, entities) :
                out.result = "ok" =>
                    \A r \in GetEntities(update_type, DB, TRUE) :
                        IF KeyOf(r) \in KeysOf(update_type, entities)
                        THEN \E q \in RowsWithKey(out.db, update_type, r) :
                                q.loaddate = now
                        ELSE \A q \in RowsWithKey(out.db, update_type, r) :
                                q.id = r.id => q.loaddate = r.loaddate

\* C7: when a candidate has the natural key of a row and differs from it in
\* a non-key attribute (needs_review), then after a call that returns
\* normally the row carries the candidate's value, under the same id.
C7_NonKeyValuesUpdated ==
    \A update_type \in OfferTypes :
        \A entities \in OfferLists[update_type] :
            (Len(entities) > 0 /\ WellTyped(update_type, entities)) =>
                \A out \in OutcomesNow(update_type, entities) :
                    out.result = "ok" =>
                        \A c \in EntitiesSet(entities) :
                            \A r \in GetEntities(update_type, DB, TRUE) :
                                (KeyOf(r) = KeyOf(c)
                                 /\ r.needs_review # c.needs_review) =>
                                    \E q \in RowsWithKey(out.db, update_type, r) :
                                        /\ q.id = r.id
                                        /\ q.needs_review = c.needs_review

\* C8: a category update called with the empty list raises nothing,
\* returns 0, leaves every row of the catalog as it was, and appends exactly
\* one UpdateLog row, of that category.
C8_EmptyListIsNoOp ==
    \A update_type \in UpdateType :
        \A out \in OutcomesNow(update_type, <<>>) :
            /\ out.result = "ok"
            /\ out.ret = 0
            /\ out.db = DB
            /\ updateLogs \subseteq out.logs
            /\ Cardinality(out.logs \ updateLogs) = 1
            /\ \A l \in out.logs \ updateLogs :
                  l.update_type = update_type /\ l.loaddate = now

\* A call with the empty list has returned 0 and logged its update while a
\* row older than the category's horizon was in the catalog, and still is.
C8_Witness ==
    /\ last.update_type \in {"RSI_STANDALONES", "REDDIT_STANDALONES"}
    /\ last.len_entities = 0
    /\ last.result = "ok"
    /\ last.ret = 0
    /\ last.deletion = {}
    /\ now = last.at
    /\ \E r \in GetEntities(last.update_type, DB, TRUE) :
          last.at - r.loaddate > Horizon(last.update_type)
    /\ \E l \in updateLogs :
          l.update_type = last.update_type /\ l.loaddate = last.at

(***************************************************************************)
(* Properties of the ship and manufacturer catalog (SpecShips).           *)
(***************************************************************************)

\* C9: a category update raises ValueError whenever its list holds a record
\* that is not of the category's type (the foreign object 1, or a Standalone
\* inside a ships update), and no such record is written to the catalog.
C9_StrangersRejected ==
    \A update_type \in {"MANUFACTURERS", "SHIPS"} :
        \A entities \in ShipLists[update_type] :
            ~WellTyped(update_type, entities) =>
                \A out \in OutcomesNow(update_type, entities) :
                    /\ out.result = "ValueError"
                    /\ out.db.standalones = standalones
                    /\ out.db.upgrades = upgrades

(***************************************************************************)
(* Properties of the path queries (SpecPath).                              *)
(***************************************************************************)

\* The confirmed upgrade offers of the catalog.
ConfirmedUpgrades(db) == {r \in db.upgrades : ~r.needs_review}

\* The chains of offers that lead from ship start to ship target.
Chains(offers, start, target) ==
    { c \in UNION {[1..n -> offers] : n \in 0..Cardinality(offers)} :
        IF Len(c) = 0 THEN start = target
        ELSE /\ c[1].ship_id_from = start
             /\ c[Len(c)].ship_id_to = target
             /\ \A i \in 1..(Len(c) - 1) : c[i].ship_id_to = c[i + 1].ship_id_from }

\* C10: when get_upgrade_path(start, target), start not the origin, returns a
\* path after update(), the path's total_cost is the minimum, over all chains
\* of confirmed upgrade offers leading from start to target, of the summed
\* prices; of several offers for one pair of ships the cheapest one counts.
C10_TotalCostIsMinimum ==
    (/\ query.op = "get_upgrade_path"
     /\ query.result = "UpgradePath"
     /\ a_upgrades = GetAllUpgrades(DB, FALSE)
     /\ graph = BuildGraph(a_standalones, a_upgrades)) =>
        LET chains == Chains(ConfirmedUpgrades(DB), query.start, query.target) IN
        /\ \E c \in chains : SumPrices(c) = query.total_cost
        /\ \A c \in chains : query.total_cost <= SumPrices(c)

(***************************************************************************)
(* Properties of the purchase-path queries (SpecPurchase).                 *)
(***************************************************************************)

\* The confirmed standalone offers of the catalog.
ConfirmedStandalones(db) == {r \in db.standalones : ~r.needs_review}

\* What the ways to own ship target cost: a confirmed standalone offer and
\* a chain of confirmed upgrade offers from its ship to target.
WaysToOwn(db, target) ==
    UNION { { s.price_usd + SumPrices(c) :
                c \in Chains(ConfirmedUpgrades(db), s.ship_id, target) } :
            s \in ConfirmedStandalones(db) }

\* The snapshot of the analyzer is the one update() takes of the catalog.
SnapshotCurrent ==
    /\ a_standalones = GetAllStandalones(DB, FALSE)
    /\ a_upgrades = GetAllUpgrades(DB, FALSE)
    /\ graph = BuildGraph(a_standalones, a_upgrades)

\* C11: when get_purchase_path(target) returns a path after update(), the
\* price of its starting Standalone plus the total cost of its upgrade path
\* is the minimum, over every confirmed Standalone offer and every chain of
\* confirmed Upgrade offers from that offer's ship to target, of the summed
\* prices.
C11_PurchaseCostIsMinimum ==
    (/\ query.op = "get_purchase_path"
     /\ query.result = "PurchasePath"
     /\ SnapshotCurrent) =>
        LET ways == WaysToOwn(DB, query.target) IN
        /\ query.total_cost \in ways
        /\ \A w \in ways : query.total_cost <= w

\* The offers of the analyzer's snapshot, as tables.
Snapshot ==
    [standalones |-> {a_standalones[i] : i \in 1..Len(a_standalones)},
     upgrades |-> {a_upgrades[i] : i \in 1..Len(a_upgrades)}]

\* C12: a call of get_purchase_path(target) whose target cannot be reached
\* from the origin in the analyzer's snapshot (no standalone offer of the
\* snapshot leads to it through upgrade offers of the snapshot; so for
\* every target before the first update()) returns None and raises nothing.
C12_UnreachablePurchaseIsNone ==
    (/\ query.op = "get_purchase_path"
     /\ WaysToOwn(Snapshot, query.target) = {}) =>
        query.result = "None"

(***************************************************************************)
(* Properties of the upgrade-path queries on any snapshot (SpecPath).      *)
(***************************************************************************)

\* The answer of a path query that found no path.
NoPath == [result |-> "None", upgrades |-> <<>>, total_cost |-> 0]

\* C13: whenever no chain of upgrade offers of the analyzer's snapshot
\* leads from a ship start to a ship target (so for every pair of different
\* ships before the first update()), get_upgrade_path(start, target)
\* returns None and raises nothing.
C13_UnreachableUpgradeIsNone ==
    \A start_ship_id \in PathShips : \A target_ship_id \in PathShips :
        Chains(Snapshot.upgrades, start_ship_id, target_ship_id) = {} =>
            GetUpgradePath(graph, a_upgrades, start_ship_id, target_ship_id)
                = {NoPath}

\* get_upgrade_path has returned None for an unreachable target on a
\* snapshot that holds offers.
C13_Witness ==
    /\ query.op = "get_upgrade_path"
    /\ query.start # SHIP_ID_NONE
    /\ query.result = "None"
    /\ a_upgrades # <<>>
    /\ Chains(Snapshot.upgrades, query.start, query.target) = {}

\* The answer of get_upgrade_path to a wrong use.
UsageError == [result |-> "ValueError", upgrades |-> <<>>, total_cost |-> 0]

\* C14: on every snapshot and for every target, get_upgrade_path(origin,
\* target) raises ValueError, whatever the graph holds; and a call of it
\* leaves the graph, the lists of the snapshot and the catalog as they were.
C14_OriginIsUsageError ==
    /\ [](\A target_ship_id \in PathShips \cup {SHIP_ID_NONE} :
            GetUpgradePath(graph, a_upgrades, SHIP_ID_NONE, target_ship_id)
                = {UsageError})
    /\ [][(/\ query' # query
           /\ query'.op = "get_upgrade_path"
           /\ query'.start = SHIP_ID_NONE) =>
              /\ query'.result = "ValueError"
              /\ UNCHANGED <<graph, a_standalones, a_upgrades, catalogVars>>]_vars

\* get_upgrade_path(origin, target) has raised ValueError on a snapshot that
\* holds offers.
C14_Witness ==
    /\ query.op = "get_upgrade_path"
    /\ query.start = SHIP_ID_NONE
    /\ query.result = "ValueError"
    /\ a_upgrades # <<>>

\* Every offer of the list is confirmed.
AllConfirmed(offers) == \A i \in 1..Len(offers) : ~offers[i].needs_review

\* The edge from u to v of the graph carries the price of a confirmed offer
\* of the catalog: a standalone offer from the origin, an upgrade offer
\* between ships.
EdgeFromConfirmed(db, g, u, v) ==
    IF u = SHIP_ID_NONE
    THEN \E r \in ConfirmedStandalones(db) :
            r.ship_id = v /\ r.price_usd = g[<<u, v>>]
    ELSE \E r \in ConfirmedUpgrades(db) :
            r.ship_id_from = u /\ r.ship_id_to = v /\ r.price_usd = g[<<u, v>>]

Clamp(x, lo, hi) == IF x < lo THEN lo ELSE IF x > hi THEN hi ELSE x

\* floor(length * 0.3): the integer k with k <= 3 * length / 10 < k + 1.
FloorOfThreeTenths(length) ==
    CHOOSE k \in 0..length : 10 * k <= 3 * length /\ 3 * length < 10 * (k + 1)

\* C17 as stated: fuzzy_search_min_score(length) is
\* base - clamp(floor(length * 0.3), 0, 10) with base = 65.
C17_MinScoreIsBaseMinusClamp ==
    scored.called =>
        scored.min_score = 65 - Clamp(FloorOfThreeTenths(scored.length), 0, 10)

\* C17 as amended: fuzzy_search_min_score(length) is
\* base - (10 - clamp(floor(length * 0.3), 0, 10)) with base = 65.
C17_MinScoreIsBaseMinusRest ==
    scored.called =>
        scored.min_score =
            65 - (10 - Clamp(FloorOfThreeTenths(scored.length), 0, 10))

\* fuzzy_search_min_score has been called with a length beyond the one at
\* which the offset reaches its cap.
C17_Witness ==
    /\ scored.called
    /\ FloorOfThreeTenths(scored.length) > 10

\* C18: of two calls of fuzzy_search_min_score in a row, the second with a
\* length at least that of the first, the second value is at least the
\* first: the threshold never decreases as the length increases.
C18_MinScoreMonotonic ==
    [][(/\ scored.called
        /\ scored.length <= scored'.length) =>
            scored.min_score <= scored'.min_score]_scored

\* A call with a length of at least 19 has given a higher threshold than
\* the one for the length 0.
C18_Witness ==
    /\ scored.called
    /\ scored.length >= 19
    /\ scored.min_score > FuzzySearchMinScore(0)

(***************************************************************************)
(* Properties of the name look-ups (SpecResolver).                         *)
(***************************************************************************)

\* The two candidate spaces of a catalog: the bare names of the ships and
\* the compound names.
Spaces(db) ==
    << {CandidateNames(db)[i] : i \in 1..Len(QueryShips(db))},
       {CandidateCompoundNames(db)[i] : i \in 1..Len(QueryShips(db))} >>

\* The best score of a candidate space.
BestScore(space, scorer) == Max({scorer[c] : c \in space})

\* A candidate of the best score of the space reaches the threshold for the
\* shorter of name and candidate.
Clears(space, name, scorer) ==
    \E c \in space :
        /\ scorer[c] = BestScore(space, scorer)
        /\ scorer[c] >= FuzzySearchMinScore(Min({Len(name), Len(c)}))

\* C16: whenever find_ship_id_by_name(name) resolves the name, in one of
\* the two candidate spaces a candidate of the best score reaches
\* minScore(min(|name|, |candidate|)), and needs_review is false exactly
\* when that best score is at least the confident threshold, 90.
C16_ResolvedOnlyAboveThreshold ==
    \A name \in LookupNames : \A scorer \in Scorers(DB) :
        LET out == FindShipIdByName(DB, name, scorer) IN
        out.result = "Found" =>
            \E k \in 1..2 :
                /\ Clears(Spaces(DB)[k], name, scorer)
                /\ out.needs_review = (BestScore(Spaces(DB)[k], scorer) < 90)

\* A name has been resolved with the confident score itself, and so without
\* the flag.
C16_Witness ==
    /\ lookup.result = "Found"
    /\ lookup.score = 90
    /\ ~lookup.needs_review
    /\ Cardinality(ships) = MaxShips

\* The names the guard of find_ship_id_by_name lets pass.
PassingNames == LookupNames \ {"", "\""}

\* C19: for a name the guard lets pass, when no bare name clears the
\* threshold but a compound name does, find_ship_id_by_name returns the id of
\* a ship whose compound name has the best score and clears the threshold,
\* with needs_review set from that score; when a bare name clears the
\* threshold, the result comes from the bare names.
C19_CompoundNamesSecond ==
    \A name \in PassingNames : \A scorer \in Scorers(DB) :
        LET out == FindShipIdByName(DB, name, scorer)
            bare == Spaces(DB)[1]
            compound == Spaces(DB)[2]
        IN  /\ (QueryShips(DB) # <<>> /\ ~Clears(bare, name, scorer)
                    /\ Clears(compound, name, scorer)) =>
                  /\ out.result = "Found"
                  /\ \E i \in 1..Len(QueryShips(DB)) :
                        /\ scorer[CandidateCompoundNames(DB)[i]]
                              = BestScore(compound, scorer)
                        /\ out.ship_id = <<QueryShips(DB)[i].id>>
                  /\ out.needs_review = (BestScore(compound, scorer) < 90)
            /\ (QueryShips(DB) # <<>> /\ Clears(bare, name, scorer)) =>
                  (out.result = "Found" => out.set = 1)


\* The names of an entry of a batch.
NamesOf(entry) ==
    IF entry.update_type = "REDDIT_STANDALONES"
    THEN {entry.ship_name}
    ELSE {entry.ship_name_from, entry.ship_name_to}

\* The ids of the ship the look-up of the batch resolves a name to; none
\* when find_ship_id_by_name returns None.
ResolvedId(name) ==
    LET out == FindShipIdByName(DB, name, batch.scorers[name]) IN
    IF out.result = "Found" THEN out.ship_id ELSE << >>

\* Every name of the entry is resolved.
Resolved(entry) == \A name \in NamesOf(entry) : ResolvedId(name) # << >>

\* The entries of the batch of one kind that are resolved.
ResolvedEntries(update_type) ==
    {i \in 1..Len(batch.entries) :
        /\ batch.entries[i].update_type = update_type
        /\ Resolved(batch.entries[i])}

\* The entry is among the offers handed to update_reddit_standalones or
\* update_reddit_upgrades, and in the table after the two calls.
Ingested(entry) ==
    IF entry.update_type = "REDDIT_STANDALONES"
    THEN /\ \E i \in 1..Len(batch.standalones) :
              /\ batch.standalones[i].ship_id = ResolvedId(entry.ship_name)[1]
              /\ batch.standalones[i].price_usd = entry.price_usd
              /\ batch.standalones[i].store_id = entry.store_id
         /\ \E row \in standalones :
              /\ row.ship_id = ResolvedId(entry.ship_name)[1]
              /\ row.store_id = entry.store_id
    ELSE /\ \E i \in 1..Len(batch.upgrades) :
              /\ batch.upgrades[i].ship_id_from = ResolvedId(entry.ship_name_from)[1]
              /\ batch.upgrades[i].ship_id_to = ResolvedId(entry.ship_name_to)[1]
              /\ batch.upgrades[i].price_usd = entry.price_usd
              /\ batch.upgrades[i].store_id = entry.store_id
         /\ \E row \in upgrades :
              /\ row.ship_id_from = ResolvedId(entry.ship_name_from)[1]
              /\ row.ship_id_to = ResolvedId(entry.ship_name_to)[1]
              /\ row.store_id = entry.store_id

LogsOfCategory(update_type) == {l \in updateLogs : l.update_type = update_type}

\* C21: in every state reached by update_* calls, each category has at most
\* UPDATE_LOGS_ENTRY_LIMIT rows in the table of update logs.
C21_LogsWithinLimit ==
    \A update_type \in UpdateType :
        Cardinality(LogsOfCategory(update_type)) <= UPDATE_LOGS_ENTRY_LIMIT


\* get_loaddate of every category other than the updated one is the same
\* over the two tables of update logs.
OthersKeep(logs, logs2, update_type) ==
    \A d \in UpdateType \ {update_type} :
        GetLoaddate(logs2, d) = GetLoaddate(logs, d)

C23_AllOrNothing ==
    \A update_type \in CommitTypes :
        \A entities \in OfferLists[update_type] :
            \A out \in OutcomesNow(update_type, entities) :
                out.result = "ok" =>
                    LET commits == CommittedStates(update_type, entities, DB,
                                                   updateLogs, now, out)
                    IN  \A i \in 1..Len(commits) :
                            \/ commits[i] = [db |-> DB, logs |-> updateLogs]
                            \/ commits[i] = [db |-> out.db, logs |-> out.logs]


\* What the path queries return over a snapshot.
Answers(snapshot, start_ship_id, target_ship_id) ==
    GetUpgradePath(snapshot.graph, snapshot.upgrades, start_ship_id, target_ship_id)

\* C24: while update() is in progress, every path query is answered as over
\* the snapshot update() started from or as over the snapshot it ends with.
C24_QueriesSeeWholeSnapshot ==
    rebuild.pc # "idle" =>
        \A start_ship_id \in PathShips : \A target_ship_id \in PathShips :
            Answers(SnapshotOf(graph, a_standalones, a_upgrades),
                    start_ship_id, target_ship_id)
                \subseteq
                    (Answers(rebuild.old, start_ship_id, target_ship_id)
                     \cup Answers(SnapshotOf(
                                      BuildGraph(GetAllStandalones(DB, FALSE),
                                                 GetAllUpgrades(DB, FALSE)),
                                      GetAllStandalones(DB, FALSE),
                                      GetAllUpgrades(DB, FALSE)),
                                  start_ship_id, target_ship_id))


(***************************************************************************)
(* The broker's refreshes.                                                 *)
(***************************************************************************)
\* The categories a provider's refresh reconciles.
UpdateTypesOf(provider) ==
    CASE provider = "SHIPS" -> {"MANUFACTURERS", "SHIPS"}
      [] provider = "RSI_STANDALONES" -> {"RSI_STANDALONES"}
      [] provider = "RSI_UPGRADES" -> {"RSI_UPGRADES"}
      [] provider = "REDDIT_ENTRIES" -> {"REDDIT_STANDALONES", "REDDIT_UPGRADES"}

\* The provider's data was due for a refresh when the recorded call began.
Due(provider) ==
    refresh.force
      \/ IsExpired(refresh.before.p.data_expiry[provider], Lifetime(provider),
                   refresh.at)

\* The categories whose update_* returned during the recorded call.
UpdatedTypes == {refresh.updated[i] : i \in 1..Len(refresh.updated)}

\* C25: category failures are isolated.  After a complete_update in which
\* the refresh of one category failed, every other category that was due
\* has sent its request and has been reconciled.
C25_FailuresIsolated ==
    refresh.op = "complete_update" =>
        \A provider \in DataProviderType :
            (Due(provider) /\ refresh.fetch[provider].outcome = "ok") =>
                /\ provider \in refresh.fetched
                /\ UpdateTypesOf(provider) \subseteq UpdatedTypes


\* The rows of a category: the official offers are the ones of the official
\* store, the community offers the ones of the other stores.
RowsOf(db, update_type) ==
    CASE update_type \in {"RSI_STANDALONES", "RSI_UPGRADES"} ->
           {r \in TableOf(db, update_type) : IsRsiItem(r)}
      [] update_type \in {"REDDIT_STANDALONES", "REDDIT_UPGRADES"} ->
           {r \in TableOf(db, update_type) : IsRedditItem(r)}
      [] OTHER -> TableOf(db, update_type)

\* The endpoint of the provider was asked during the recorded call and did
\* not answer with its list.
FetchFailed(provider) ==
    /\ refresh.op # None
    /\ provider \in refresh.fetched
    /\ refresh.fetch[provider].outcome # "ok"

\* C26: when the upstream fetch of a category fails during a refresh, the
\* prior data of the category is kept: the provider's payload and its time
\* of last refresh are the ones before the call, the category has no newer
\* update log, and its persisted rows are unchanged.
C26_FailedFetchKeepsPriorData ==
    \A provider \in DataProviderType :
        FetchFailed(provider) =>
            /\ data[provider] = refresh.before.p.data[provider]
            /\ data_expiry[provider] = refresh.before.p.data_expiry[provider]
            /\ \A update_type \in UpdateTypesOf(provider) :
                  /\ GetLoaddate(updateLogs, update_type)
                        = GetLoaddate(refresh.before.logs, update_type)
                  /\ RowsOf(DB, update_type)
                        = RowsOf(refresh.before.db, update_type)


\* The provider's data is not expired now.
Fresh(provider) ==
    ~IsExpired(data_expiry[provider], Lifetime(provider), now)

\* C30: a refresh of the broker with force = false on a category whose
\* data is not expired changes nothing: whatever the endpoints would
\* answer, no request is sent, no update_* is called (no eviction, no
\* insert, no UpdateLog row) and the analyzer is not rebuilt; and the
\* recorded get_ships / get_upgrades call of that kind has left the
\* broker's state as it found it.
C30_FreshUnforcedRefreshIsNoOp ==
    /\ \A provider \in DataProviderType :
          Fresh(provider) =>
             \A fetch \in Fetches : \A scorers \in RefreshScorers :
                BrokerUpdate(provider, FALSE, fetch, scorers, BrokerNow, now)
                   = BrokerNow
    /\ (refresh.op \in {"get_ships", "get_upgrades"} /\ ~refresh.force
          /\ ~Due(RefreshOrder(refresh.op)[1])) =>
             /\ refresh.fetched = {}
             /\ refresh.updated = <<>>
             /\ refresh.rebuilt = 0
             /\ BrokerNow = refresh.before

\* An unforced get_ships on loaded, unexpired ship data whose endpoint would
\* have answered, in a state where the data of every provider is loaded and
\* not expired.
C30_Witness ==
    /\ refresh.op = "get_ships"
    /\ ~refresh.force
    /\ ~Due("SHIPS")
    /\ refresh.fetch["SHIPS"].outcome = "ok"
    /\ refresh.before.db.ships # {}
    /\ \A provider \in DataProviderType :
          Fresh(provider) /\ data[provider] # <<>>


\* C27: expires_in() returns None when the data is expired (a missing
\* time of last refresh included) and otherwise the remaining time
\* last_updated + lifetime - now, which is not negative.
C27_ExpiresInIsRemainingTime ==
    remaining.called =>
        IF IsExpired(remaining.last_updated, remaining.lifetime, remaining.at)
        THEN remaining.ret = PyNone
        ELSE /\ remaining.ret = PyTimedelta(remaining.last_updated[1]
                                              + remaining.lifetime - remaining.at)
             /\ remaining.last_updated[1] + remaining.lifetime - remaining.at >= 0


\* C28: eviction is scoped to the updated category.  Whatever a category
\* update evicts from the current catalog is a row of that category, and
\* the rows of every other category are after the call what they were
\* before it, loaddate included; in particular an update of the official
\* standalones deletes no community standalone.
C28_EvictionScopedToCategory ==
    \A update_type \in UpdateType :
        \A entities \in OfferLists[update_type] :
            \A out \in OutcomesNow(update_type, entities) :
                /\ out.deletion \subseteq RowsOf(DB, update_type)
                /\ \A other \in UpdateType \ {update_type} :
                      RowsOf(out.db, other) = RowsOf(DB, other)


\* C29: when a category update raises the validation error, the persisted
\* state is the state before the call: no row evicted, inserted or changed,
\* no UpdateLog row appended.
C29_ValidationErrorChangesNothing ==
    \A update_type \in UpdateType :
        \A entities \in OfferLists[update_type] :
            \A out \in OutcomesNow(update_type, entities) :
                out.result = "ValueError" =>
                    /\ out.db = DB
                    /\ out.logs = updateLogs

(***************************************************************************)
(* Properties of the results of the path queries (SpecPath, SpecPurchase). *)
(***************************************************************************)

\* C31: on every snapshot, every path that get_upgrade_path(start, target)
\* returns is a connected chain of upgrade offers of the snapshot: its first
\* offer starts at start, its last one ends at target, each offer ends where
\* the next one starts, and total_cost is the sum of the offers' prices; for
\* start = target the chain is empty and total_cost is 0.
C31_ResultIsConnectedChain ==
    \A start_ship_id \in PathShips : \A target_ship_id \in PathShips :
        \A out \in GetUpgradePath(graph, a_upgrades, start_ship_id, target_ship_id) :
            out.result = "UpgradePath" =>
                /\ out.upgrades \in
                       Chains(Snapshot.upgrades, start_ship_id, target_ship_id)
                /\ out.total_cost = SumPrices(out.upgrades)
                /\ start_ship_id = target_ship_id =>
                       out.upgrades = <<>> /\ out.total_cost = 0

\* get_upgrade_path has returned a chain of two offers of the snapshot.
C31_Witness ==
    /\ query.op = "get_upgrade_path"
    /\ query.result = "UpgradePath"
    /\ Len(query.upgrades) = 2
    /\ query.upgrades \in Chains(Snapshot.upgrades, query.start, query.target)
    /\ query.total_cost = SumPrices(query.upgrades)

\* Buying ship target directly is the cheapest way to own it among the
\* offers of the catalog db: a standalone offer for target costs less than
\* every standalone offer followed by a chain of upgrades that ends at
\* target.
DirectIsCheapest(db, target) ==
    \E s \in db.standalones :
        /\ s.ship_id = target
        /\ \A other \in db.standalones :
              \A c \in Chains(db.upgrades, other.ship_id, target) :
                  Len(c) > 0 => s.price_usd < other.price_usd + SumPrices(c)

\* C32: on every snapshot, every path that get_purchase_path(target) returns
\* starts with a confirmed standalone offer of the snapshot whose ship is
\* the from-ship of the first upgrade of the path, or target itself when the
\* path has no upgrade; and when buying target directly is the cheapest way
\* to own it, the path has no upgrade and start_purchase.ship_id = target.
C32_PurchaseStartsAtStandalone ==
    \A target_ship_id \in PathShips :
        \A out \in GetPurchasePath(graph, a_standalones, a_upgrades, target_ship_id) :
            out.result = "PurchasePath" =>
                /\ out.start_purchase[1] \in Snapshot.standalones
                /\ ~out.start_purchase[1].needs_review
                /\ out.start_purchase[1].ship_id =
                       (IF out.upgrades = <<>> THEN target_ship_id
                        ELSE out.upgrades[1].ship_id_from)
                /\ DirectIsCheapest(Snapshot, target_ship_id) =>
                       /\ out.upgrades = <<>>
                       /\ out.start_purchase[1].ship_id = target_ship_id

\* An offer of the snapshot has the endpoints of the edge from u to v and
\* its weight as price: a standalone offer for an edge from the origin, an
\* upgrade offer for an edge between ships.
EdgeResolves(g, standalone_list, upgrade_list, u, v) ==
    IF u = SHIP_ID_NONE
    THEN ResolveStandalone(standalone_list, v, GetEdgeWeight(g, u, v)) # << >>
    ELSE ResolveUpgrade(upgrade_list, u, v, GetEdgeWeight(g, u, v)) # << >>

\* C33: in every graph that update() has built, each edge has at least one
\* offer of the same snapshot with its endpoints and its weight as price, so
\* no call of get_upgrade_path from a ship or of get_purchase_path ends in
\* the ValueError 'Candidate could not be resolved'.
C33_EdgesResolve ==
    graph = BuildGraph(a_standalones, a_upgrades) =>
        /\ \A edge \in DOMAIN graph :
              EdgeResolves(graph, a_standalones, a_upgrades, edge[1], edge[2])
        /\ \A target_ship_id \in PathShips :
              /\ \A out \in GetPurchasePath(graph, a_standalones, a_upgrades,
                                            target_ship_id) :
                    out.result # "ValueError"
              /\ \A start_ship_id \in PathShips :
                    \A out \in GetUpgradePath(graph, a_upgrades, start_ship_id,
                                              target_ship_id) :
                        out.result # "ValueError"

\* After update() on a catalog with two standalone offers for one ship,
\* get_purchase_path has returned a path with an upgrade: each of its two
\* edges was resolved to an offer.
C33_Witness ==
    /\ graph = BuildGraph(a_standalones, a_upgrades)
    /\ Len(a_standalones) = 2
    /\ a_standalones[1].ship_id = a_standalones[2].ship_id
    /\ query.op = "get_purchase_path"
    /\ query.result = "PurchasePath"
    /\ Len(query.upgrades) = 1

\* The offers of the list that match offer o on the edge it stands for:
\* the same ships and the same price.
SameEdge(upgrade_list, o) ==
    { upgrade_list[i] : i \in { j \in 1..Len(upgrade_list) :
        /\ upgrade_list[j].ship_id_from = o.ship_id_from
        /\ upgrade_list[j].ship_id_to = o.ship_id_to
        /\ upgrade_list[j].price_usd = o.price_usd } }

\* C34: on every snapshot, each offer of a path that get_upgrade_path
\* returns has the lowest id among the offers of the snapshot with the same
\* ships and the same price, whatever store they come from and in whatever
\* order they were loaded.
C34_LowestIdResolves ==
    \A start_ship_id \in PathShips : \A target_ship_id \in PathShips :
        \A out \in GetUpgradePath(graph, a_upgrades, start_ship_id, target_ship_id) :
            out.result = "UpgradePath" =>
                \A i \in 1..Len(out.upgrades) :
                    \A other \in SameEdge(a_upgrades, out.upgrades[i]) :
                        out.upgrades[i].id <= other.id

(***************************************************************************)
(* Properties of the snapshot after the broker's operations (SpecRefresh). *)
(***************************************************************************)

\* The last operation of the broker returned and changed the catalog.
ReturnedWithChange ==
    /\ refresh.op # None
    /\ ~refresh.raised
    /\ DB # refresh.before.db

\* No update() of the analyzer has run yet: no operation of the broker was
\* called, or the only one called ended before its first update().
BeforeFirstUpdate ==
    \/ refresh.n = 0
    \/ refresh.n = 1 /\ refresh.rebuilt = 0

\* The snapshot a new PathAnalyzer starts with.
SnapshotEmpty ==
    /\ graph = EmptyGraph
    /\ a_standalones = <<>>
    /\ a_upgrades = <<>>

\* C35 as stated: after complete_update, get_ships or get_upgrades has
\* returned and changed the catalog, the analyzer's snapshot is the one
\* update() derives from the confirmed offers now persisted; before the
\* first update() the snapshot is empty and get_upgrade_path returns None
\* for every pair of ships.
C35_SnapshotFollowsCatalog ==
    /\ ReturnedWithChange => SnapshotCurrent
    /\ BeforeFirstUpdate =>
          /\ SnapshotEmpty
          /\ \A start_ship_id \in PathShips : \A target_ship_id \in PathShips :
                GetUpgradePath(graph, a_upgrades, start_ship_id, target_ship_id)
                    = {NoPath}

\* C35 amended: as above, with None before the first update() for every
\* pair of different ships (a query from a ship to itself returns the empty
\* path).
C35_SnapshotFollowsCatalogBetweenShips ==
    /\ ReturnedWithChange => SnapshotCurrent
    /\ BeforeFirstUpdate =>
          /\ SnapshotEmpty
          /\ \A start_ship_id \in PathShips : \A target_ship_id \in PathShips :
                start_ship_id # target_ship_id =>
                    GetUpgradePath(graph, a_upgrades, start_ship_id, target_ship_id)
                        = {NoPath}

\* An operation of the broker has returned after it replaced offers of the
\* catalog (rows evicted and rows inserted), and the snapshot holds the
\* offers now persisted.
C35_Witness ==
    /\ ReturnedWithChange
    /\ \E r \in refresh.before.db.standalones \cup refresh.before.db.upgrades :
          r \notin standalones \cup upgrades
    /\ \E r \in standalones \cup upgrades :
          r \notin refresh.before.db.standalones \cup refresh.before.db.upgrades
    /\ SnapshotCurrent
    /\ Len(a_standalones) + Len(a_upgrades) > 0

(***************************************************************************)
(* Properties of the choice among the candidates (SpecResolver).           *)
(***************************************************************************)

\* The two candidate spaces of a catalog: the names of the ships, and the
\* names after the manufacturers' names.
CandidateSets(db) == <<CandidateNames(db), CandidateCompoundNames(db)>>

\* Candidate c is one of the top candidates, none of them scores higher,
\* and none of those with its score is longer.
LongestOfBest(top, c) ==
    /\ \E i \in 1..Len(top) : top[i] = c
    /\ \A i \in 1..Len(top) :
          /\ top[i].score <= c.score
          /\ top[i].score = c.score => Len(top[i].choice) <= Len(c.choice)

NeedsReview(name) ==
    FindShipIdByName(DB, name, batch.scorers[name]).needs_review

\* The place of entry i of the batch in the list of the offers of its kind:
\* the number of resolved entries of the kind up to it.
PlaceOf(i) ==
    Cardinality({j \in ResolvedEntries(batch.entries[i].update_type) : j <= i})

\* C37: in a batch that _update_reddit_entries has processed, the offers
\* built are, in order, those of the entries whose names all resolve (both
\* names of an upgrade entry, the name of a standalone entry) and of no
\* other entry, each with the resolved ship ids; and the Upgrade built from
\* an entry has needs_review = TRUE if and only if the look-up of its
\* from-name or the look-up of its to-name needs review.
C37_ReviewIfEitherName ==
    (batch.called /\ (batch.updated \/ batch.force) /\ ~batch.raised) =>
        /\ Len(batch.standalones)
               = Cardinality(ResolvedEntries("REDDIT_STANDALONES"))
        /\ Len(batch.upgrades)
               = Cardinality(ResolvedEntries("REDDIT_UPGRADES"))
        /\ \A i \in ResolvedEntries("REDDIT_STANDALONES") :
              batch.standalones[PlaceOf(i)].ship_id
                  = ResolvedId(batch.entries[i].ship_name)[1]
        /\ \A i \in ResolvedEntries("REDDIT_UPGRADES") :
              /\ batch.upgrades[PlaceOf(i)].ship_id_from
                     = ResolvedId(batch.entries[i].ship_name_from)[1]
              /\ batch.upgrades[PlaceOf(i)].ship_id_to
                     = ResolvedId(batch.entries[i].ship_name_to)[1]
              /\ batch.upgrades[PlaceOf(i)].needs_review
                     = (\/ NeedsReview(batch.entries[i].ship_name_from)
                        \/ NeedsReview(batch.entries[i].ship_name_to))

\* A batch was processed with an upgrade entry of which one name was
\* resolved with confidence and the other one needs review: the Upgrade
\* built from it needs review and is in the table.
C37_Witness ==
    /\ batch.called
    /\ batch.updated
    /\ ~batch.raised
    /\ \E i \in ResolvedEntries("REDDIT_UPGRADES") :
          /\ NeedsReview(batch.entries[i].ship_name_from)
                 # NeedsReview(batch.entries[i].ship_name_to)
          /\ batch.upgrades[PlaceOf(i)].needs_review
    /\ \E row \in upgrades : row.needs_review

(***************************************************************************)
(* Properties of the references to ships (SpecEvict).                      *)
(***************************************************************************)

\* The ids of the ships of the catalog.
CatalogShipIds == {s.id : s \in ships}

\* C38: in every state reached by the broker's operations, every Standalone
\* row and every Upgrade row of the catalog refers to ships of the Ship
\* table, and every edge of the analyzer's graph leads from the origin or
\* from such a ship to such a ship.
C38_OffersReferenceShips ==
    /\ \A r \in standalones : r.ship_id \in CatalogShipIds
    /\ \A r \in upgrades :
          r.ship_id_from \in CatalogShipIds /\ r.ship_id_to \in CatalogShipIds
    /\ \A edge \in DOMAIN graph :
          /\ edge[1] \in CatalogShipIds \cup {SHIP_ID_NONE}
          /\ edge[2] \in CatalogShipIds

(***************************************************************************)
(* Properties of the order of the reconciliation (SpecRefresh).            *)
(***************************************************************************)

\* The last operation of the broker called update_<first> and right after
\* it update_<second>.
UpdatedInTurn(first, second) ==
    \E i \in 1..(Len(refresh.updated) - 1) :
        refresh.updated[i] = first /\ refresh.updated[i + 1] = second

\* C39: when an operation of the broker during which the ships were
\* fetched (by _update_ships, or by the refresh of the official standalones
\* or upgrades that reads the ship cache) has returned, it has called
\* update_manufacturers and then update_ships; and while the ship cache is
\* fresh the ships it holds are in the Ship table.
C39_FetchedShipsReconciled ==
    /\ (refresh.op # None /\ ~refresh.raised /\ "SHIPS" \in refresh.fetched) =>
          UpdatedInTurn("MANUFACTURERS", "SHIPS")
    /\ Fresh("SHIPS") => IdsOf(data["SHIPS"]) \subseteq CatalogShipIds

\* The categories in the order in which complete_update reconciles them.
CategoryOrder ==
    <<"MANUFACTURERS", "SHIPS", "RSI_STANDALONES", "RSI_UPGRADES",
      "REDDIT_STANDALONES", "REDDIT_UPGRADES">>

\* The place of a category in that order.
PlaceInOrder(update_type) ==
    CHOOSE i \in 1..Len(CategoryOrder) : CategoryOrder[i] = update_type

\* The name of the last look-up for a list of entries: the ship name of a
\* standalone entry, the to-ship name of an upgrade entry.
LastNameOf(entries) ==
    IF entries[Len(entries)].update_type = "REDDIT_STANDALONES"
    THEN entries[Len(entries)].ship_name
    ELSE entries[Len(entries)].ship_name_to

=============================================================================
